---- MODULE Spec2Model ----
(***************************************************************************)
(* A model of the SkyEx ledger core: the asyncpg Repo (accounts,           *)
(* transactions, idempotent _apply_delta), the two-leg exchange settlement *)
(* (AbstractExchangeHandler.process) and the edit recomputation            *)
(* (AbstractExchangeHandler.apply_edit_delta).                             *)
(*                                                                         *)
(* Amounts are integers counted in units of 10^-MaxPrec, so a Decimal with *)
(* at most MaxPrec fractional digits is represented exactly.               *)
(***************************************************************************)
EXTENDS Integers, Sequences, FiniteSets, TLC

\* ------------------------------------------------------------------ bounds

\* Transactions the ledger may hold before the model stops applying.
MaxTxns == 2
\* Concurrent callers of _apply_delta, and the calls they begin in total.
NWorkers == 2
MaxCalls == 3
MaxClicks == 2
MaxRows == 3
MaxPairTxns == 3
MaxMarks == 4
MaxDeliveries == 5

\* ------------------------------------------------------------- input sets

Clients == {1}
Codes == {"USD", "EUR"}
\* Currency codes as callers spell them (to_upper normalises them).
CodeInputs == {"usd", "EUR"}
\* ... and as add_currency / remove_currency are given them.
AccountCodeInputs == CodeInputs \cup Codes
\* Values the currency_code column can hold.
StoredCodes == Codes \cup AccountCodeInputs
\* Account precisions explored (the program allows 0..8), and the finest one.
Precisions == {0, 1}
MaxPrec == CHOOSE p \in Precisions : \A q \in Precisions : q <= p
\* Raw amounts a caller passes (deposit applies them, withdraw negates them),
\* in units of 10^-MaxPrec; they hit rounding ties at the coarser precisions.
AmountInputs == {5, 10}
\* Idempotency keys; NoKey stands for None / the empty string.
NoKey == ""
KeyInputs == {NoKey, "k1"}
\* The statement of _apply_delta's transaction at which the storage layer
\* fails, if it does.
Faults == {"none", "update", "insert"}

\* ------------------------------------------------------------------ state

VARIABLES
    accounts,   \* client_accounts rows: [Clients \X StoredCodes -> row]
    txns,       \* committed transactions rows, in commit (id) order
    ret,        \* the last Repo call and what it returned
    pc,         \* concurrent callers of _apply_delta: where each one stands
    req,        \* ... the arguments of its call
    loc,        \* ... what it read and wrote inside its storage transaction
    rowLock,    \* client_accounts row locks: [Codes -> holder, 0 when free]
    started,    \* concurrent calls begun so far
    handler,    \* the exchange handler's leg directions
    cmds,       \* exchange commands received, by message id
    cards,      \* request cards the bot has sent, by originating message id
    ex,         \* the last run of process: what it did and reported
    ed,         \* the last run of try_edit_request: what it did and reported
    ca,         \* the last run of _cb_cancel, and the presses so far
    chatLock,   \* chat_locks.for_chat(chat): the holder, 0 when free
    job,        \* wallet handlers running: what each one handles, and where
    seen,       \* undo_registry._seen: bot message ids marked done
    buttons,    \* undo keyboards the bot has sent, by bot message id
    changes,    \* the signed amount each balance command message carries
    un,         \* undo attempts so far, by bot message id
    clients,    \* clients rows, in id order
    ens,        \* callers of ensure_client: arguments, position, outcome
    hq,         \* a paged history query: the rows, the window, the pages so far
    qz,         \* a call of quantize_amount: arguments and result
    undo_registry,  \* an UndoRegistry: _seen oldest first, _max, the calls so far
    dedup,      \* a DedupMiddleware: seen oldest first, maxsize, deliveries, handler calls
    lk          \* the asyncio locks: per chat and of the registry, and each handler's place

ledgerVars == <<accounts, txns>>
concVars == <<pc, req, loc, rowLock, started>>
exchVars == <<handler, cmds, cards, ex, ed, ca>>
gateVars == <<chatLock, job, seen, buttons, changes, un>>
clientVars == <<clients, ens>>
pureVars == <<hq, qz, undo_registry, dedup, lk>>
vars == <<accounts, txns, ret, pc, req, loc, rowLock, started,
          handler, cmds, cards, ex, ed, ca,
          chatLock, job, seen, buttons, changes, un, clients, ens, hq, qz,
          undo_registry, dedup, lk>>

\* ------------------------------------------------------ db_asyncpg/utils.py

RECURSIVE Pow10(_)
Pow10(n) == IF n = 0 THEN 1 ELSE 10 * Pow10(n - 1)

Abs(x) == IF x < 0 THEN -x ELSE x

\* Decimal(10) ** (-precision), in model units.
Quantum(precision) == Pow10(MaxPrec - precision)

\* A code stored as it was spelled.
to_upper_as_spelled(code) == code

\* (code or "").upper()
to_upper(code) ==
    CASE code = "usd" -> "USD"
      [] code = "eur" -> "EUR"
      [] OTHER -> code

\* Rounding to the nearest multiple with ties to the even one.
quantize_amount_half_even(value, precision) ==
    LET q   == Quantum(precision)
        lo  == Abs(value) \div q
        rem == Abs(value) % q
        up  == 2 * rem > q \/ (2 * rem = q /\ lo % 2 = 1)
        r   == (IF up THEN lo + 1 ELSE lo) * q
    IN  IF value < 0 THEN -r ELSE r

\* d.quantize(q, rounding=ROUND_HALF_UP): nearest multiple, ties away from zero.
quantize_amount(value, precision) ==
    LET q == Quantum(precision)
        r == ((2 * Abs(value) + q) \div (2 * q)) * q
    IN  IF value < 0 THEN -r ELSE r

\* The shape of `ret`: the call, the value it returned (an id, or 1/0 for a
\* bool), and the exception it raised instead ("KeyError", or the step at
\* which the storage layer failed).
NoCall == [op |-> "none", client |-> 0, raw |-> "", code |-> "", precision |-> 0,
           key |-> NoKey, was |-> "none", result |-> 0, err |-> "none"]

\* ------------------------------------------------------ client_accounts

\* The balance column's default for a freshly inserted row.
InitialBalance == 0

NoRow == [id |-> 0, active |-> FALSE, deactivated |-> FALSE, precision |-> 0, balance |-> 0]

AccountIds == {accounts[k].id : k \in DOMAIN accounts}

NextAccountId ==
    1 + (CHOOSE m \in AccountIds \cup {0} : \A i \in AccountIds \cup {0} : i <= m)

\* What a call found under (client_id, currency_code).
row_state(row) ==
    IF row.id = 0 THEN "absent" ELSE IF row.active THEN "active" ELSE "inactive"

\* An upsert that leaves the stored precision of an existing row alone.
add_currency_row_keep_precision(row, precision) ==
    IF row.id = 0
    THEN [id |-> NextAccountId, active |-> TRUE, deactivated |-> FALSE, precision |-> precision,
          balance |-> InitialBalance]
    ELSE [row EXCEPT !.active = TRUE, !.deactivated = FALSE]

\* INSERT ... ON CONFLICT (client_id, currency_code) DO UPDATE
\*   SET is_active = TRUE, precision = EXCLUDED.precision, deactivated_at = NULL
add_currency_row(row, precision) ==
    IF row.id = 0
    THEN [id |-> NextAccountId, active |-> TRUE, deactivated |-> FALSE, precision |-> precision,
          balance |-> InitialBalance]
    ELSE [row EXCEPT !.active = TRUE, !.precision = precision, !.deactivated = FALSE]

add_currency(client_id, currency_code, precision) ==
    LET code == to_upper(currency_code)
        row  == add_currency_row(accounts[<<client_id, code>>], precision)
    IN  /\ accounts' = [accounts EXCEPT ![<<client_id, code>>] = row]
        /\ ret' = [NoCall EXCEPT !.op = "add_currency", !.client = client_id,
                                   !.raw = currency_code, !.code = code,
                                   !.precision = precision,
                                   !.was = row_state(accounts[<<client_id, code>>]),
                                   !.result = row.id]
        /\ UNCHANGED txns

\* A removal that also deletes the transactions of the account.
remove_currency_purging(client_id, currency_code) ==
    LET code == to_upper(currency_code)
        row  == accounts[<<client_id, code>>]
        hit  == row.id # 0 /\ row.active
    IN  /\ accounts' = IF hit
                       THEN [accounts EXCEPT ![<<client_id, code>>].active = FALSE,
                                             ![<<client_id, code>>].deactivated = TRUE]
                       ELSE accounts
        /\ ret' = [NoCall EXCEPT !.op = "remove_currency", !.client = client_id,
                                   !.raw = currency_code, !.code = code,
                                   !.was = row_state(row),
                                   !.result = IF hit THEN 1 ELSE 0]
        /\ txns' = IF hit THEN SelectSeq(txns, LAMBDA t : t.acct # row.id) ELSE txns

\* A removal that refuses an account holding a non-zero balance.
remove_currency_if_empty(client_id, currency_code) ==
    LET code == to_upper(currency_code)
        row  == accounts[<<client_id, code>>]
        hit  == row.id # 0 /\ row.active /\ row.balance = 0
    IN  /\ accounts' = IF hit
                       THEN [accounts EXCEPT ![<<client_id, code>>].active = FALSE,
                                             ![<<client_id, code>>].deactivated = TRUE]
                       ELSE accounts
        /\ ret' = [NoCall EXCEPT !.op = "remove_currency", !.client = client_id,
                                   !.raw = currency_code, !.code = code,
                                   !.was = row_state(row),
                                   !.result = IF hit THEN 1 ELSE 0]
        /\ UNCHANGED txns

\* UPDATE ... SET is_active = FALSE WHERE ... AND is_active = TRUE; 'UPDATE 1'
remove_currency(client_id, currency_code) ==
    LET code == to_upper(currency_code)
        row  == accounts[<<client_id, code>>]
        hit  == row.id # 0 /\ row.active
    IN  /\ accounts' = IF hit
                       THEN [accounts EXCEPT ![<<client_id, code>>].active = FALSE,
                                             ![<<client_id, code>>].deactivated = TRUE]
                       ELSE accounts
        /\ ret' = [NoCall EXCEPT !.op = "remove_currency", !.client = client_id,
                                   !.raw = currency_code, !.code = code,
                                   !.was = row_state(row),
                                   !.result = IF hit THEN 1 ELSE 0]
        /\ UNCHANGED txns

\* ------------------------------------------------------------ transactions

\* SELECT id FROM transactions WHERE client_id=$1 AND idempotency_key=$2
\* (only when a key was passed: `if idempotency_key:`); 0 when there is none.
IdemLookupNone(rows, client_id, key) == 0

IdemLookup(rows, client_id, key) ==
    IF key = NoKey THEN 0
    ELSE LET hits == {i \in DOMAIN rows :
                        rows[i].client = client_id /\ rows[i].key = key}
         IN  IF hits = {} THEN 0 ELSE CHOOSE i \in hits : TRUE

\* `async with con.transaction()`: an exception inside rolls everything back.
con_transaction_no_rollback(pre, work, failed) == work

con_transaction(pre, work, failed) == IF failed THEN pre ELSE work

\* The tables as one value, so that a handler can chain Repo calls.
Ledger == [accounts |-> accounts, txns |-> txns]

\* The state the body of _apply_delta has written when it stops at `fault`
\* (or runs to the end): the balance UPDATE, then the transaction INSERT.
apply_work(led, client_id, code, amount, key, fault) ==
    LET acc         == led.accounts[<<client_id, code>>]
        qamount     == quantize_amount(amount, acc.precision)
        new_balance == quantize_amount(acc.balance + qamount, acc.precision)
        updated     == [led.accounts EXCEPT ![<<client_id, code>>].balance = new_balance]
        inserted    == Append(led.txns, [client |-> client_id, code |-> code,
                                         acct |-> acc.id, amount |-> qamount,
                                         balance_after |-> new_balance, key |-> key])
    IN  CASE fault = "update" -> [accounts |-> led.accounts, txns |-> led.txns]
          [] fault = "insert" -> [accounts |-> updated, txns |-> led.txns]
          [] OTHER            -> [accounts |-> updated, txns |-> inserted]

\* An apply that looks the account up without `AND is_active=TRUE`.
apply_delta_any_row(led, client_id, currency_code, amount, key, fault) ==
    LET t     == [accounts |-> led.accounts, txns |-> led.txns]
        code  == to_upper(currency_code)
        exist == IdemLookup(t.txns, client_id, key)
        acc   == t.accounts[<<client_id, code>>]
    IN  IF exist # 0
        THEN t @@ [result |-> exist, err |-> "none"]
        ELSE IF acc.id = 0
        THEN t @@ [result |-> 0, err |-> "KeyError"]
        ELSE IF fault # "none"
        THEN con_transaction(t, apply_work(t, client_id, code, amount, key, fault), TRUE)
                 @@ [result |-> 0, err |-> fault]
        ELSE con_transaction(t, apply_work(t, client_id, code, amount, key, fault), FALSE)
                 @@ [result |-> Len(t.txns) + 1, err |-> "none"]

\* Repo._apply_delta as one committed (or rolled back) storage transaction on
\* the tables `led`: the tables afterwards, the transaction id returned
\* (result) or the exception raised instead (err).
apply_delta(led, client_id, currency_code, amount, key, fault) ==
    LET t     == [accounts |-> led.accounts, txns |-> led.txns]
        code  == to_upper(currency_code)
        exist == IdemLookup(t.txns, client_id, key)
        acc   == t.accounts[<<client_id, code>>]
    IN  IF exist # 0
        THEN t @@ [result |-> exist, err |-> "none"]
        ELSE IF acc.id = 0 \/ ~acc.active
        THEN t @@ [result |-> 0, err |-> "KeyError"]
        ELSE IF fault # "none"
        THEN con_transaction(t, apply_work(t, client_id, code, amount, key, fault), TRUE)
                 @@ [result |-> 0, err |-> fault]
        ELSE con_transaction(t, apply_work(t, client_id, code, amount, key, fault), FALSE)
                 @@ [result |-> Len(t.txns) + 1, err |-> "none"]

deposit(led, client_id, currency_code, amount, key, fault) ==
    apply_delta(led, client_id, currency_code, amount, key, fault)

withdraw_unsigned(led, client_id, currency_code, amount, key, fault) ==
    apply_delta(led, client_id, currency_code, amount, key, fault)

\* kwargs["amount"] = -Decimal(str(kwargs["amount"]))
withdraw(led, client_id, currency_code, amount, key, fault) ==
    apply_delta(led, client_id, currency_code, -amount, key, fault)

\* One Repo call made directly by a caller: the tables and `ret` afterwards.
Returned(r, client_id, currency_code, key) ==
    /\ accounts' = r.accounts
    /\ txns' = r.txns
    /\ ret' = [NoCall EXCEPT !.op = "apply", !.client = client_id,
                             !.raw = currency_code, !.code = to_upper(currency_code),
                             !.key = key, !.result = r.result, !.err = r.err]

\* ------------------------------------------------------ exchange state

\* Chats (ensure_client gives each chat its client) and message ids.
ChatId == 1
\* Messages that carry a new exchange command, and messages that reply to a
\* request card with a corrected command.
MsgIds == {1}
EditMsgIds == {2}
AllMsgIds == MsgIds \cup EditMsgIds
\* Amounts as the commands spell them, in units of 10^-MaxPrec.
ExAmounts == {0, 4, 15}
\* (recv_is_deposit, pay_is_withdraw): the defaults of process, and what
\* AcceptShortHandler passes.
Handlers == {[recv_is_deposit |-> TRUE, pay_is_withdraw |-> TRUE],
             [recv_is_deposit |-> FALSE, pay_is_withdraw |-> FALSE]}

NoCmd == [recv_code |-> "", recv_raw |-> 0, pay_code |-> "", pay_raw |-> 0]
Cmds == [recv_code : Codes, recv_raw : ExAmounts,
         pay_code : Codes, pay_raw : ExAmounts]
\* Amounts of the commands that are settled and then corrected: each leg has
\* two of them, and on either leg an amount can grow, shrink or stay.
EditRecvAmounts == {4, 15}
EditPayAmounts == {15, 25}
EditCmds == [recv_code : Codes, recv_raw : EditRecvAmounts,
             pay_code : Codes, pay_raw : EditPayAmounts]

NoPretty == [neg |-> FALSE, groups |-> <<>>, frac |-> <<>>]
NoCard == [shown |-> FALSE, recv |-> NoPretty, recv_code |-> "",
           pay |-> NoPretty, pay_code |-> ""]

NoEx == [msg |-> 0, pre |-> <<>>, pre_txns |-> 0,
         legA |-> "none", legB |-> "none", comp |-> "none",
         outcome |-> "none", causes |-> {}]
NoEd == [msg |-> 0, target |-> 0, pre |-> <<>>, pre_txns |-> 0, old |-> NoCard,
         recalc |-> "none", statuses |-> <<>>, rewritten |-> FALSE]
NoCancel == [msg |-> 0, pre |-> <<>>, pre_txns |-> 0, outcome |-> "none",
             statuses |-> <<>>, presses |-> 0]

ExchIdle ==
    /\ handler = CHOOSE h \in Handlers : h.recv_is_deposit
    /\ cmds = [m \in AllMsgIds |-> NoCmd]
    /\ cards = [m \in MsgIds |-> NoCard]
    /\ ex = NoEx
    /\ ed = NoEd
    /\ ca = NoCancel

\* ------------------------------------------------- the Repo, call by call

Workers == 1..NWorkers

NoReq == [code |-> "", amount |-> 0, key |-> NoKey]
NoLoc == [precision |-> 0, balance |-> 0, qamount |-> 0, new_balance |-> 0,
          result |-> 0, err |-> "none"]

ConcIdle ==
    /\ pc = [w \in Workers |-> "idle"]
    /\ req = [w \in Workers |-> NoReq]
    /\ loc = [w \in Workers |-> NoLoc]
    /\ rowLock = [c \in Codes |-> 0]
    /\ started = 0

\* Balance commands ("/usd 0.5") and the bot's answers to them.
ChangeMsgIds == {3, 4}
AnswerTo(message_id) == message_id + Cardinality(ChangeMsgIds)
UndoMsgIds == {AnswerTo(m) : m \in ChangeMsgIds}
ChangeCode == "usd"
ChangeAmounts == {5, -15}

NoJob == [op |-> "idle", msg |-> 0, stage |-> "idle"]
NoButton == [code |-> "", sign |-> "", amt |-> 0]
NoUndo == [tries |-> 0, ok |-> 0, hits |-> 0]

\* NULL, and the arguments ensure_client is called with.
Null == "<null>"
EnsureNames == {"", "A"}
EnsureCities == {Null, "", "M"}

NoEnsure == [pc |-> "idle", chat_id |-> 0, name |-> "", city |-> Null,
             row |-> 0, result |-> 0, err |-> "none"]

\* No history query and no quantize_amount call is under way.
NoTime == 0
NoQuery == [times |-> <<>>, since |-> NoTime, until |-> NoTime, limit |-> 0,
            cursor |-> <<>>, got |-> <<>>, pages |-> 0, done |-> FALSE]
NoQuantize == [value |-> 0, precision |-> 0, result |-> 0, done |-> FALSE]

\* An UndoRegistry and a DedupMiddleware nothing has been asked of.
NoRegistry == [seen |-> <<>>, max |-> 0, log |-> <<>>, asked |-> <<>>, done |-> FALSE]
NoDedup == [seen |-> <<>>, max |-> 0, log |-> <<>>, calls |-> <<>>]

\* The chats whose handlers share the process, an asyncio.Lock nobody holds or
\* waits for, a handler that is not running, and all locks free.
LockChats == {1, 2}
FreeLock == [holder |-> 0, waiters |-> <<>>]
NoHandler == [chat |-> 0, op |-> "idle", path |-> "none", pos |-> "idle", waited |-> FALSE]
NoLocks == [chat |-> [c \in LockChats |-> FreeLock], reg |-> FreeLock,
            h |-> [w \in Workers |-> NoHandler]]

PureIdle ==
    /\ hq = NoQuery
    /\ qz = NoQuantize
    /\ undo_registry = NoRegistry
    /\ dedup = NoDedup
    /\ lk = NoLocks

ClientIdle ==
    /\ clients = <<>>
    /\ ens = [w \in Workers |-> NoEnsure]

GateIdle ==
    /\ chatLock = 0
    /\ job = [w \in Workers |-> NoJob]
    /\ seen = {}
    /\ buttons = [b \in UndoMsgIds |-> NoButton]
    /\ changes = [m \in ChangeMsgIds |-> CHOOSE a \in ChangeAmounts : a > 0]
    /\ un = [b \in UndoMsgIds |-> NoUndo]

Init ==
    /\ accounts = [k \in Clients \X StoredCodes |-> NoRow]
    /\ txns = <<>>
    /\ ret = NoCall
    /\ ConcIdle
    /\ ClientIdle
    /\ PureIdle
    /\ GateIdle
    /\ ExchIdle

\* The precision of the USD account is changed freely; the EUR account is
\* only ever opened at the finest precision.
AddCurrency ==
    /\ \E c \in Clients, code \in CodeInputs, p \in Precisions :
          /\ to_upper(code) = "EUR" => p = MaxPrec
          /\ add_currency(c, code, p)
    /\ UNCHANGED <<concVars, clientVars, pureVars, exchVars, gateVars>>

RemoveCurrency ==
    /\ \E c \in Clients, code \in CodeInputs : remove_currency(c, code)
    /\ UNCHANGED <<concVars, clientVars, pureVars, exchVars, gateVars>>

Deposit ==
    /\ \E c \in Clients, code \in CodeInputs, a \in AmountInputs,
          k \in KeyInputs, f \in Faults :
          /\ Len(txns) < MaxTxns \/ IdemLookup(txns, c, k) # 0
          /\ Returned(deposit(Ledger, c, code, a, k, f), c, code, k)
    /\ UNCHANGED <<concVars, clientVars, pureVars, exchVars, gateVars>>

Withdraw ==
    /\ \E c \in Clients, code \in CodeInputs, a \in AmountInputs,
          k \in KeyInputs, f \in Faults :
          /\ Len(txns) < MaxTxns \/ IdemLookup(txns, c, k) # 0
          /\ Returned(withdraw(Ledger, c, code, a, k, f), c, code, k)
    /\ UNCHANGED <<concVars, clientVars, pureVars, exchVars, gateVars>>

Next == AddCurrency \/ RemoveCurrency \/ Deposit \/ Withdraw

Spec == Init /\ [][Next]_vars

\* Accounts opened and removed under every spelling of their codes.
AddCurrencyAs ==
    /\ \E c \in Clients, code \in AccountCodeInputs, p \in Precisions :
          add_currency(c, code, p)
    /\ UNCHANGED <<concVars, clientVars, pureVars, exchVars, gateVars>>

RemoveCurrencyAs ==
    /\ \E c \in Clients, code \in AccountCodeInputs : remove_currency(c, code)
    /\ UNCHANGED <<concVars, clientVars, pureVars, exchVars, gateVars>>

\* A deposit on one of the accounts, the storage layer working.
Fund ==
    /\ \E c \in Clients, code \in CodeInputs, a \in AmountInputs, k \in KeyInputs :
          /\ Len(txns) < MaxTxns \/ IdemLookup(txns, c, k) # 0
          /\ Returned(deposit(Ledger, c, code, a, k, "none"), c, code, k)
    /\ UNCHANGED <<concVars, clientVars, pureVars, exchVars, gateVars>>

AccountsNext == AddCurrencyAs \/ RemoveCurrencyAs \/ Fund

SpecAccounts == Init /\ [][AccountsNext]_vars

\* Deposits and withdrawals on one account, every call under a key of its
\* own, while the account's precision is set and set again.
PairCode == "usd"
PairKey(n) == ToString(n)

SetPrecision ==
    /\ \E c \in Clients, p \in Precisions : add_currency(c, PairCode, p)
    /\ UNCHANGED <<concVars, clientVars, pureVars, exchVars, gateVars>>

PairDeposit ==
    /\ Len(txns) < MaxPairTxns
    /\ \E c \in Clients, a \in AmountInputs, k \in {PairKey(Len(txns) + 1)} :
          Returned(deposit(Ledger, c, PairCode, a, k, "none"), c, PairCode, k)
    /\ UNCHANGED <<concVars, clientVars, pureVars, exchVars, gateVars>>

PairWithdraw ==
    /\ Len(txns) < MaxPairTxns
    /\ \E c \in Clients, a \in AmountInputs, k \in {PairKey(Len(txns) + 1)} :
          Returned(withdraw(Ledger, c, PairCode, a, k, "none"), c, PairCode, k)
    /\ UNCHANGED <<concVars, clientVars, pureVars, exchVars, gateVars>>

PairNext == SetPrecision \/ PairDeposit \/ PairWithdraw

SpecPair == Init /\ [][PairNext]_vars

\* ------------------------------------- _apply_delta, statement by statement
\* Several callers run Repo._apply_delta at once, each in its own storage
\* transaction (READ COMMITTED): a statement sees what has been committed.

ConcClient == 1
ConcKeys == {"k1", "k2"}
\* The signed amount each concurrent caller passes.
CallerAmount(w) == IF w % 2 = 1 THEN 5 ELSE -10

ConcInit ==
    /\ accounts = [k \in Clients \X StoredCodes |->
                     IF k[2] = "USD"
                     THEN [id |-> 1, active |-> TRUE, deactivated |-> FALSE, precision |-> 0,
                           balance |-> InitialBalance]
                     ELSE IF k[2] = "EUR"
                     THEN [id |-> 2, active |-> TRUE, deactivated |-> FALSE, precision |-> MaxPrec,
                           balance |-> InitialBalance]
                     ELSE NoRow]
    /\ txns = <<>>
    /\ ret = NoCall
    /\ ConcIdle
    /\ ClientIdle
    /\ PureIdle
    /\ GateIdle
    /\ ExchIdle

\* SELECT ... FOR UPDATE: waits while another transaction holds the row, then
\* holds it until commit or rollback.
select_plain(code, w) == [ok |-> TRUE, locks |-> rowLock]

select_for_update(code, w) ==
    IF rowLock[code] = 0
    THEN [ok |-> TRUE, locks |-> [rowLock EXCEPT ![code] = w]]
    ELSE [ok |-> FALSE, locks |-> rowLock]

\* The idempotency key is unique within the owning client.
unique_index(rows, client_id, key) ==
    key # NoKey /\ \E i \in DOMAIN rows : rows[i].client = client_id /\ rows[i].key = key

\* Leaving `async with con.transaction()` by an exception: nothing the
\* transaction wrote reaches the tables, and its row locks are released.
rollback_keeps_update(w) ==
    IF pc[w] \in {"insert", "commit"}
    THEN [accounts EXCEPT ![<<ConcClient, req[w].code>>].balance = loc[w].new_balance]
    ELSE accounts

rollback(w) == accounts

release(w) == [c \in Codes |-> IF rowLock[c] = w THEN 0 ELSE rowLock[c]]

Begin(w) ==
    /\ pc[w] = "idle"
    /\ started < MaxCalls
    /\ \E code \in CodeInputs, k \in ConcKeys :
          req' = [req EXCEPT ![w] = [code |-> to_upper(code),
                                     amount |-> CallerAmount(w), key |-> k]]
    /\ pc' = [pc EXCEPT ![w] = "check"]
    /\ started' = started + 1
    /\ UNCHANGED <<accounts, txns, ret, loc, rowLock, clientVars, pureVars, exchVars, gateVars>>

\* 1) the idempotency lookup
IdemCheck(w) ==
    /\ pc[w] = "check"
    /\ LET exist == IdemLookup(txns, ConcClient, req[w].key)
       IN  IF exist # 0
           THEN /\ loc' = [loc EXCEPT ![w].result = exist]
                /\ pc' = [pc EXCEPT ![w] = "done"]
           ELSE /\ pc' = [pc EXCEPT ![w] = "select"]
                /\ UNCHANGED loc
    /\ UNCHANGED <<accounts, txns, ret, req, rowLock, started, clientVars, pureVars, exchVars, gateVars>>

\* 2) lock and read the account row
SelectAccount(w) ==
    /\ pc[w] = "select"
    /\ LET acc == accounts[<<ConcClient, req[w].code>>]
           sel == select_for_update(req[w].code, w)
       IN  IF acc.id = 0 \/ ~acc.active
           THEN /\ loc' = [loc EXCEPT ![w].err = "KeyError"]
                /\ pc' = [pc EXCEPT ![w] = "done"]
                /\ UNCHANGED rowLock
           ELSE /\ sel.ok
                /\ rowLock' = sel.locks
                /\ loc' = [loc EXCEPT ![w].precision = acc.precision,
                                      ![w].balance = acc.balance]
                /\ pc' = [pc EXCEPT ![w] = "update"]
    /\ UNCHANGED <<accounts, txns, ret, req, started, clientVars, pureVars, exchVars, gateVars>>

\* 3) UPDATE client_accounts SET balance (takes the row lock if not yet held)
UpdateBalance(w) ==
    /\ pc[w] = "update"
    /\ rowLock[req[w].code] \in {0, w}
    /\ LET qamount     == quantize_amount(req[w].amount, loc[w].precision)
           new_balance == quantize_amount(loc[w].balance + qamount, loc[w].precision)
       IN  loc' = [loc EXCEPT ![w].qamount = qamount, ![w].new_balance = new_balance]
    /\ rowLock' = [rowLock EXCEPT ![req[w].code] = w]
    /\ pc' = [pc EXCEPT ![w] = "insert"]
    /\ UNCHANGED <<accounts, txns, ret, req, started, clientVars, pureVars, exchVars, gateVars>>

\* 4) INSERT INTO transactions: waits for an uncommitted row with the same key,
\* and fails on a committed one.
InsertTxn(w) ==
    /\ pc[w] = "insert"
    /\ ~\E v \in Workers \ {w} : pc[v] = "commit" /\ req[v].key = req[w].key
    /\ IF unique_index(txns, ConcClient, req[w].key)
       THEN /\ accounts' = rollback(w)
            /\ rowLock' = release(w)
            /\ loc' = [loc EXCEPT ![w].err = "UniqueViolation"]
            /\ pc' = [pc EXCEPT ![w] = "done"]
       ELSE /\ pc' = [pc EXCEPT ![w] = "commit"]
            /\ UNCHANGED <<accounts, rowLock, loc>>
    /\ UNCHANGED <<txns, ret, req, started, clientVars, pureVars, exchVars, gateVars>>

\* Leaving the transaction block normally: COMMIT.
Commit(w) ==
    /\ pc[w] = "commit"
    /\ LET k == <<ConcClient, req[w].code>>
       IN  /\ accounts' = [accounts EXCEPT ![k].balance = loc[w].new_balance]
           /\ txns' = Append(txns, [client |-> ConcClient, code |-> req[w].code,
                                    acct |-> accounts[k].id, amount |-> loc[w].qamount,
                                    balance_after |-> loc[w].new_balance,
                                    key |-> req[w].key])
    /\ rowLock' = release(w)
    /\ loc' = [loc EXCEPT ![w].result = Len(txns) + 1]
    /\ pc' = [pc EXCEPT ![w] = "done"]
    /\ UNCHANGED <<ret, req, started, clientVars, pureVars, exchVars, gateVars>>

\* A storage failure at any statement of the transaction.
Fail(w) ==
    /\ pc[w] \in {"select", "update", "insert", "commit"}
    /\ accounts' = rollback(w)
    /\ rowLock' = release(w)
    /\ loc' = [loc EXCEPT ![w].err = "StorageError"]
    /\ pc' = [pc EXCEPT ![w] = "done"]
    /\ UNCHANGED <<txns, ret, req, started, clientVars, pureVars, exchVars, gateVars>>

\* The call returns (or raises) to its caller.
Return(w) ==
    /\ pc[w] = "done"
    /\ pc' = [pc EXCEPT ![w] = "idle"]
    /\ req' = [req EXCEPT ![w] = NoReq]
    /\ loc' = [loc EXCEPT ![w] = NoLoc]
    /\ UNCHANGED <<accounts, txns, ret, rowLock, started, clientVars, pureVars, exchVars, gateVars>>

ConcNext ==
    \E w \in Workers :
        \/ Begin(w)
        \/ IdemCheck(w)
        \/ SelectAccount(w)
        \/ UpdateBalance(w)
        \/ InsertTxn(w)
        \/ Commit(w)
        \/ Fail(w)
        \/ Return(w)

SpecConc == ConcInit /\ [][ConcNext]_vars

\* ------------------------------------------------- utils/formatting.py

\* Decimal.quantize under the default context: ROUND_HALF_EVEN.
quantize_default(value, precision) ==
    LET q   == Quantum(precision)
        lo  == Abs(value) \div q
        rem == Abs(value) % q
        up  == 2 * rem > q \/ (2 * rem = q /\ lo % 2 = 1)
        r   == (IF up THEN lo + 1 ELSE lo) * q
    IN  IF value < 0 THEN -r ELSE r

\* The decimal digits of n, most significant first, padded to `width`.
Digits(n, width) == [i \in 1..width |-> (n \div Pow10(width - i)) % 10]

\* The integer part cut into groups of three digits, joined by the apostrophe.
RECURSIVE _group_int(_)
_group_int(n) ==
    IF n < 1000 THEN <<n>> ELSE Append(_group_int(n \div 1000), n % 1000)

\* The text of an amount: sign, grouped integer part, `precision` fraction
\* digits.
format_amount_core(amount, precision) ==
    LET a     == quantize_default(amount, precision)
        a_abs == Abs(a)
    IN  [neg    |-> a < 0,
         groups |-> _group_int(a_abs \div Pow10(MaxPrec)),
         frac   |-> SubSeq(Digits(a_abs % Pow10(MaxPrec), MaxPrec), 1, precision)]

to_lower(code) ==
    CASE code = "USD" -> "usd"
      [] code = "EUR" -> "eur"
      [] OTHER        -> code

\* ----------------------------------- utils/exchange_base.py: settlement

idem_key(chat_id, message_id, leg) ==
    ToString(chat_id) \o ":" \o ToString(message_id) \o ":" \o leg

\* A Repo call as its caller sees it: the tables afterwards, the exception
\* raised (err) and how the call went: it raised, it returned the id of a
\* Transaction recorded earlier under the key, or it applied the delta.
Called(before, r, client_id, key) ==
    [accounts |-> r.accounts, txns |-> r.txns, err |-> r.err,
     status |-> IF r.err # "none" THEN "failed"
                ELSE IF \E i \in DOMAIN before.txns :
                           /\ before.txns[i].client = client_id
                           /\ before.txns[i].key = key
                THEN "hit"
                ELSE "applied"]

\* A call the handler does not reach.
NotCalled(before) ==
    [accounts |-> before.accounts, txns |-> before.txns, err |-> "none",
     status |-> "none"]

\* Step 6 of process, leg A.
leg_recv(led, h, client_id, recv_code, recv_amount, idem_recv, fault) ==
    Called(led,
           IF h.recv_is_deposit
           THEN deposit(led, client_id, recv_code, recv_amount, idem_recv, fault)
           ELSE withdraw(led, client_id, recv_code, recv_amount, idem_recv, fault),
           client_id, idem_recv)

\* Step 6 of process, leg B: reached when leg A returned.
leg_pay(rA, h, client_id, pay_code, pay_amount, idem_pay, fault) ==
    IF rA.status = "failed" THEN NotCalled(rA)
    ELSE Called(rA,
                IF h.pay_is_withdraw
                THEN withdraw(rA, client_id, pay_code, pay_amount, idem_pay, fault)
                ELSE deposit(rA, client_id, pay_code, pay_amount, idem_pay, fault),
                client_id, idem_pay)

\* The handler of the `try` that holds both legs: whichever leg raised, the
\* inverse of leg A is issued under the ':undo' key.
compensate(rA, rB, h, client_id, recv_code, recv_amount, idem_undo, fault) ==
    IF rA.status # "failed" /\ rB.status # "failed" THEN NotCalled(rB)
    ELSE Called(rB,
                IF h.recv_is_deposit
                THEN withdraw(rB, client_id, recv_code, recv_amount, idem_undo, fault)
                ELSE deposit(rB, client_id, recv_code, recv_amount, idem_undo, fault),
                client_id, idem_undo)

\* Only the exception of the failed leg reaches the answer: the `return` in
\* the `finally` block discards whatever the compensating call raised.
report_leg_err(leg_err, comp_err) == {[of |-> "leg", err |-> leg_err]}

\* What the run reports after step 6 and the steps that follow it.
process_outcome(rA, rB, rC, tail) ==
    IF rA.status = "failed" \/ rB.status = "failed"
    THEN [outcome |-> "exchange_failed",
          causes |-> report_leg_err(IF rA.status = "failed" THEN rA.err ELSE rB.err,
                                    rC.err),
          card |-> FALSE]
    ELSE IF tail = "snapshot"
    THEN [outcome |-> "operation_failed",
          causes |-> {[of |-> "snapshot", err |-> tail]}, card |-> TRUE]
    ELSE [outcome |-> "ok", causes |-> {}, card |-> tail # "answer"]

\* Early returns without the check of the quantized amounts.
rejection_unquantized(cmd, acc_recv, acc_pay, recv_amount, pay_amount) ==
    IF cmd.recv_raw <= 0 \/ cmd.pay_raw <= 0 THEN "not_positive"
    ELSE IF ~acc_recv.active \/ ~acc_pay.active THEN "no_account"
    ELSE "none"

\* The early returns of process: the reason it stops before step 6, if any.
rejection(cmd, acc_recv, acc_pay, recv_amount, pay_amount) ==
    IF cmd.recv_raw <= 0 \/ cmd.pay_raw <= 0 THEN "not_positive"
    ELSE IF ~acc_recv.active \/ ~acc_pay.active THEN "no_account"
    ELSE IF recv_amount = 0 \/ pay_amount = 0 THEN "too_small"
    ELSE "none"

\* The end of a run of process: tables, card and report.
process_done(m, led, card, legA, legB, comp, outcome, causes) ==
    /\ accounts' = led.accounts
    /\ txns' = led.txns
    /\ cards' = IF card.shown THEN [cards EXCEPT ![m] = card] ELSE cards
    /\ ex' = [msg |-> m, pre |-> accounts, pre_txns |-> Len(txns),
              legA |-> legA, legB |-> legB, comp |-> comp,
              outcome |-> outcome, causes |-> causes]

\* AbstractExchangeHandler.process for the command `cmd` of message `m`, with
\* the storage layer failing as `f` says.
process(h, chat_id, m, cmd, f) ==
    LET client_id   == chat_id
        acc_recv    == accounts[<<client_id, cmd.recv_code>>]
        acc_pay     == accounts[<<client_id, cmd.pay_code>>]
        recv_amount == quantize_amount(cmd.recv_raw, acc_recv.precision)
        pay_amount  == quantize_amount(cmd.pay_raw, acc_pay.precision)
        why         == rejection(cmd, acc_recv, acc_pay, recv_amount, pay_amount)
        idem_recv   == idem_key(chat_id, m, "recv")
        idem_pay    == idem_key(chat_id, m, "pay")
        card == [shown |-> TRUE,
                 recv |-> format_amount_core(recv_amount, acc_recv.precision),
                 recv_code |-> to_lower(cmd.recv_code),
                 pay |-> format_amount_core(pay_amount, acc_pay.precision),
                 pay_code |-> to_lower(cmd.pay_code)]
    IN  IF why # "none"
        THEN process_done(m, Ledger, NoCard, "none", "none", "none", why, {})
        ELSE
          \E rA \in {leg_recv(Ledger, h, client_id, cmd.recv_code, recv_amount,
                              idem_recv, f.fA)} :
          \E rB \in {leg_pay(rA, h, client_id, cmd.pay_code, pay_amount,
                             idem_pay, f.fB)} :
          \E rC \in {compensate(rA, rB, h, client_id, cmd.recv_code, recv_amount,
                                idem_recv \o ":undo", f.fC)} :
          \E rep \in {process_outcome(rA, rB, rC, f.tail)} :
              process_done(m, rC, IF rep.card THEN card ELSE NoCard,
                           rA.status, rB.status, rC.status,
                           rep.outcome, rep.causes)

\* Where the storage layer fails during one run: in leg A, leg B and the
\* compensating call, and which step after the legs raises.  A fault in a call
\* that the run does not reach is left out.
Tails == {"none", "answer", "snapshot"}
FaultPlans ==
    {[fA |-> "none", fB |-> "none", fC |-> "none", tail |-> t] : t \in Tails}
    \cup {[fA |-> a, fB |-> b, fC |-> c, tail |-> "none"] :
             a \in {"none", "insert"}, b \in {"none", "update"},
             c \in {"none", "insert"}}

ExchInit ==
    /\ \E p \in Precisions, eur \in BOOLEAN :
          accounts = [k \in Clients \X StoredCodes |->
                        IF k[2] = "USD"
                        THEN [id |-> 1, active |-> TRUE, deactivated |-> FALSE, precision |-> p,
                              balance |-> InitialBalance]
                        ELSE IF k[2] = "EUR"
                     THEN [id |-> 2, active |-> eur, deactivated |-> ~eur, precision |-> MaxPrec,
                              balance |-> InitialBalance]
                     ELSE NoRow]
    /\ txns = <<>>
    /\ ret = NoCall
    /\ ConcIdle
    /\ ClientIdle
    /\ PureIdle
    /\ GateIdle
    /\ handler \in Handlers
    /\ cmds = [m \in AllMsgIds |-> NoCmd]
    /\ cards = [m \in MsgIds |-> NoCard]
    /\ ex = NoEx
    /\ ed = NoEd
    /\ ca = NoCancel

\* A message carrying an exchange command is handled; the same message may be
\* delivered, and handled, again.
Process ==
    \E m \in MsgIds, cmd \in Cmds, f \in FaultPlans :
        /\ cmds[m] \in {NoCmd, cmd}
        /\ cmds' = [cmds EXCEPT ![m] = cmd]
        /\ process(handler, ChatId, m, cmd, f)
        /\ UNCHANGED <<ret, concVars, gateVars, clientVars, pureVars, handler, ed, ca>>

ExchNext == Process

SpecExchange == ExchInit /\ [][ExchNext]_vars

\* ---------------------------------------------------- ledger properties

RowsOf(id) == {i \in DOMAIN txns : txns[i].acct = id}

LastRowOf(id) == CHOOSE i \in RowsOf(id) : \A j \in RowsOf(id) : j <= i

Recorded(client_id, key) ==
    {i \in DOMAIN txns : txns[i].client = client_id /\ txns[i].key = key}

\* C1: a keyed apply whose (client, key) is already recorded returns the id of
\* the recorded transaction and changes neither a balance nor the set of
\* transactions, whatever amount or currency it names; hence no (client, key)
\* is ever recorded twice.
C1_DuplicateStep ==
    \A c \in Clients, k \in KeyInputs \ {NoKey} :
        (Recorded(c, k) # {} /\ ret'.op = "apply" /\ ret'.client = c /\ ret'.key = k)
            => /\ ret'.err = "none"
               /\ ret'.result \in Recorded(c, k)
               /\ accounts' = accounts
               /\ txns' = txns

C1_IdempotentApply ==
    /\ [](\A c \in Clients, k \in KeyInputs \ {NoKey} : Cardinality(Recorded(c, k)) <= 1)
    /\ [][C1_DuplicateStep]_vars

\* A duplicate call that named another currency than the recorded transaction.
C1_Witness ==
    /\ ret.op = "apply" /\ ret.key # NoKey /\ ret.err = "none"
    /\ ret.result < Len(txns)
    /\ txns[ret.result].key = ret.key
    /\ txns[ret.result].code # ret.code

\* C3: every account's balance is an exact multiple of 10^-precision for the
\* account's current precision.
C3_BalanceQuantized ==
    \A k \in DOMAIN accounts :
        accounts[k].id # 0 => accounts[k].balance % Quantum(accounts[k].precision) = 0

\* C4: an apply that raises changes neither a balance nor the transactions, and
\* every account's balance is the balance_after of its latest transaction (its
\* initial balance when it has none).
C4_BalanceIsLastRow ==
    \A k \in DOMAIN accounts :
        accounts[k].id # 0 =>
            accounts[k].balance = IF RowsOf(accounts[k].id) = {}
                                  THEN InitialBalance
                                  ELSE txns[LastRowOf(accounts[k].id)].balance_after

C4_FailedStep ==
    (ret'.op = "apply" /\ ret'.err # "none") => (accounts' = accounts /\ txns' = txns)

C4_AllOrNothing == []C4_BalanceIsLastRow /\ [][C4_FailedStep]_vars

\* An apply failed at its INSERT on an account that already holds a transaction.
C4_Witness ==
    /\ ret.op = "apply" /\ ret.err = "insert"
    /\ \E k \in DOMAIN accounts :
          /\ k[2] = ret.code
          /\ accounts[k].active
          /\ RowsOf(accounts[k].id) # {}

\* ------------------------------------------------ concurrency properties

RECURSIVE SumRows(_, _)
SumRows(id, n) ==
    IF n = 0 THEN 0
    ELSE SumRows(id, n - 1) + (IF txns[n].acct = id THEN txns[n].amount ELSE 0)

\* The balance just before row i was committed.
BalanceBefore(i) ==
    LET earlier == {j \in RowsOf(txns[i].acct) : j < i}
    IN  IF earlier = {} THEN InitialBalance
        ELSE txns[CHOOSE j \in earlier : \A h \in earlier : h <= j].balance_after

InSection(w) == pc[w] \in {"update", "insert", "commit"}

\* C2: under every interleaving of concurrent calls with the same client and
\* key, exactly one transaction with that key is recorded and every balance is
\* the sum of the recorded deltas (the delta is applied once).
C2_ExactlyOnce ==
    /\ \A k \in ConcKeys : Cardinality(Recorded(ConcClient, k)) <= 1
    /\ \A c \in Codes :
          accounts[<<ConcClient, c>>].balance
              = InitialBalance + SumRows(accounts[<<ConcClient, c>>].id, Len(txns))

\* Two callers with one key were past the idempotency lookup together: one
\* committed, the other then hit the committed row.
C2_Witness ==
    \E w \in Workers : \E v \in Workers \ {w} :
        /\ req[w].key = req[v].key
        /\ pc[w] = "done" /\ loc[w].err = "UniqueViolation"
        /\ pc[v] = "done" /\ loc[v].result # 0
        /\ Cardinality(Recorded(ConcClient, req[w].key)) = 1

\* C5: concurrent calls on one account never overlap between reading the row
\* and committing; the balance is the initial balance plus the committed
\* deltas, and each balance_after continues the running sum in commit order.
C5_NoLostUpdate ==
    /\ \A w \in Workers : \A v \in Workers \ {w} :
          (InSection(w) /\ InSection(v)) => req[w].code # req[v].code
    /\ \A c \in Codes :
          accounts[<<ConcClient, c>>].balance
              = InitialBalance + SumRows(accounts[<<ConcClient, c>>].id, Len(txns))
    /\ \A i \in DOMAIN txns : txns[i].balance_after = BalanceBefore(i) + txns[i].amount

\* A caller with another key waits for the row while its holder has computed
\* its update on top of an earlier commit.
C5_Witness ==
    \E w \in Workers : \E v \in Workers \ {w} :
        /\ pc[w] = "select" /\ InSection(v)
        /\ req[w].code = req[v].code /\ req[w].key # req[v].key
        /\ rowLock[req[v].code] = v
        /\ RowsOf(accounts[<<ConcClient, req[v].code>>].id) # {}

\* ------------------------------------------ utils/exchange_base.py: edits

\* The integer part read back once the separators are removed.
RECURSIVE ungroup(_)
ungroup(groups) ==
    IF Len(groups) = 0 THEN 0
    ELSE ungroup(SubSeq(groups, 1, Len(groups) - 1)) * 1000 + groups[Len(groups)]

RECURSIVE frac_value(_, _)
frac_value(frac, i) ==
    IF i > Len(frac) THEN 0
    ELSE frac[i] * Pow10(MaxPrec - i) + frac_value(frac, i + 1)

\* 'amount code' of a card line -> (Decimal, CODE)
_parse_amt_code(pretty, code) ==
    LET v == ungroup(pretty.groups) * Pow10(MaxPrec) + frac_value(pretty.frac, 1)
    IN  [amt |-> IF pretty.neg THEN -v ELSE v, code |-> to_upper(code)]

\* The old request as apply_edit_delta recovers it from the card text, its
\* amounts quantized with the precisions the caller passes.
old_request(card, recv_prec, pay_prec) ==
    LET parsed_get  == _parse_amt_code(card.recv, card.recv_code)
        parsed_give == _parse_amt_code(card.pay, card.pay_code)
    IN  [recv_code |-> parsed_get.code,
         recv_amt  |-> quantize_amount(parsed_get.amt, recv_prec),
         pay_code  |-> parsed_give.code,
         pay_amt   |-> quantize_amount(parsed_give.amt, pay_prec)]

\* Corrections sent to the Repo without an idempotency key.
edit_key_none(chat_id, target_bot_msg_id, cmd_msg_id, suffix) == NoKey

edit_key(chat_id, target_bot_msg_id, cmd_msg_id, suffix) ==
    "edit:" \o ToString(chat_id) \o ":" \o ToString(target_bot_msg_id)
        \o ":" \o ToString(cmd_msg_id) \o ":" \o suffix

RepoCall(op, code, amount, key) ==
    [op |-> op, code |-> code, amount |-> amount, key |-> key]

\* Every delta, whatever its sign, applied in the leg's own direction.
edit_calls_one_way(h, old, new, chat_id, target, cmd_msg) ==
    LET recv_op == IF h.recv_is_deposit THEN "deposit" ELSE "withdraw"
        pay_op  == IF h.pay_is_withdraw THEN "withdraw" ELSE "deposit"
        d_recv  == new.recv_amt - old.recv_amt
        d_pay   == new.pay_amt - old.pay_amt
        sfx(d)  == IF d > 0 THEN "delta+" ELSE "delta-"
    IN  (IF d_recv = 0 THEN <<>>
         ELSE <<RepoCall(recv_op, new.recv_code, Abs(d_recv),
                         edit_key(chat_id, target, cmd_msg, sfx(d_recv) \o ":recv"))>>)
        \o (IF d_pay = 0 THEN <<>>
            ELSE <<RepoCall(pay_op, new.pay_code, Abs(d_pay),
                            edit_key(chat_id, target, cmd_msg, sfx(d_pay) \o ":pay"))>>)

\* A call for each leg of an edit with unchanged currencies, a leg whose
\* amount did not change included.
edit_calls_every_leg(h, old, new, chat_id, target, cmd_msg) ==
    LET recv_op  == IF h.recv_is_deposit THEN "deposit" ELSE "withdraw"
        recv_inv == IF h.recv_is_deposit THEN "withdraw" ELSE "deposit"
        pay_op   == IF h.pay_is_withdraw THEN "withdraw" ELSE "deposit"
        pay_inv  == IF h.pay_is_withdraw THEN "deposit" ELSE "withdraw"
        key(suffix) == edit_key(chat_id, target, cmd_msg, suffix)
        d_recv   == new.recv_amt - old.recv_amt
        d_pay    == new.pay_amt - old.pay_amt
    IN  IF old.recv_code # new.recv_code \/ old.pay_code # new.pay_code
        THEN << RepoCall(recv_inv, old.recv_code, old.recv_amt, key("revert:recv")),
                RepoCall(pay_inv, old.pay_code, old.pay_amt, key("revert:pay")),
                RepoCall(recv_op, new.recv_code, new.recv_amt, key("apply:recv")),
                RepoCall(pay_op, new.pay_code, new.pay_amt, key("apply:pay")) >>
        ELSE (IF d_recv >= 0
              THEN <<RepoCall(recv_op, new.recv_code, d_recv, key("delta+:recv"))>>
              ELSE <<RepoCall(recv_inv, new.recv_code, -d_recv, key("delta-:recv"))>>)
             \o (IF d_pay >= 0
                 THEN <<RepoCall(pay_op, new.pay_code, d_pay, key("delta+:pay"))>>
                 ELSE <<RepoCall(pay_inv, new.pay_code, -d_pay, key("delta-:pay"))>>)

\* The Repo calls apply_edit_delta issues, in order: revert both old legs and
\* apply both new ones when a currency changed, else one call per leg whose
\* amount changed.
edit_calls(h, old, new, chat_id, target, cmd_msg) ==
    LET recv_op  == IF h.recv_is_deposit THEN "deposit" ELSE "withdraw"
        recv_inv == IF h.recv_is_deposit THEN "withdraw" ELSE "deposit"
        pay_op   == IF h.pay_is_withdraw THEN "withdraw" ELSE "deposit"
        pay_inv  == IF h.pay_is_withdraw THEN "deposit" ELSE "withdraw"
        key(suffix) == edit_key(chat_id, target, cmd_msg, suffix)
        d_recv   == new.recv_amt - old.recv_amt
        d_pay    == new.pay_amt - old.pay_amt
    IN  IF old.recv_code # new.recv_code \/ old.pay_code # new.pay_code
        THEN << RepoCall(recv_inv, old.recv_code, old.recv_amt, key("revert:recv")),
                RepoCall(pay_inv, old.pay_code, old.pay_amt, key("revert:pay")),
                RepoCall(recv_op, new.recv_code, new.recv_amt, key("apply:recv")),
                RepoCall(pay_op, new.pay_code, new.pay_amt, key("apply:pay")) >>
        ELSE (IF d_recv > 0
              THEN <<RepoCall(recv_op, new.recv_code, d_recv, key("delta+:recv"))>>
              ELSE IF d_recv < 0
              THEN <<RepoCall(recv_inv, new.recv_code, -d_recv, key("delta-:recv"))>>
              ELSE <<>>)
             \o (IF d_pay > 0
                 THEN <<RepoCall(pay_op, new.pay_code, d_pay, key("delta+:pay"))>>
                 ELSE IF d_pay < 0
                 THEN <<RepoCall(pay_inv, new.pay_code, -d_pay, key("delta-:pay"))>>
                 ELSE <<>>)

\* _RE_GET / _RE_GIVE find both lines and _parse_amt_code reads a number
\* from each.
old_parsable(card) == card.recv.groups # <<>> /\ card.pay.groups # <<>>

\* An unreadable old request taken as zero amounts in the new currencies.
apply_edit_delta_guessing(h, card, new, recv_prec, pay_prec, chat_id, target, cmd_msg) ==
    [returned |-> TRUE,
     calls |-> edit_calls(h,
                          IF old_parsable(card)
                          THEN old_request(card, recv_prec, pay_prec)
                          ELSE [new EXCEPT !.recv_amt = 0, !.pay_amt = 0],
                          new, chat_id, target, cmd_msg)]

\* apply_edit_delta: False and no Repo call when the old request cannot be
\* read from the card text, else the Repo calls to issue before it returns
\* True.
apply_edit_delta(h, card, new, recv_prec, pay_prec, chat_id, target, cmd_msg) ==
    IF ~old_parsable(card)
    THEN [returned |-> FALSE, calls |-> <<>>]
    ELSE [returned |-> TRUE,
          calls |-> edit_calls(h, old_request(card, recv_prec, pay_prec), new,
                               chat_id, target, cmd_msg)]

\* The i-th Repo call of apply_edit_delta; an exception raised by an earlier
\* call has ended the function.
edit_step(r, client_id, calls, i, failAt) ==
    IF r.raised \/ i > Len(calls) THEN r
    ELSE LET c     == calls[i]
             fault == IF failAt = i THEN "insert" ELSE "none"
             res   == Called(r,
                             IF c.op = "deposit"
                             THEN deposit(r, client_id, c.code, c.amount, c.key, fault)
                             ELSE withdraw(r, client_id, c.code, c.amount, c.key, fault),
                             client_id, c.key)
         IN  [accounts |-> res.accounts, txns |-> res.txns,
              raised |-> res.status = "failed",
              statuses |-> Append(r.statuses, res.status)]

\* The end of a run of try_edit_request: tables, card and report.
edit_done(e, m, led, card, recalc, statuses) ==
    /\ accounts' = led.accounts
    /\ txns' = led.txns
    /\ cards' = [cards EXCEPT ![m] = card]
    /\ ed' = [msg |-> e, target |-> m, pre |-> accounts, pre_txns |-> Len(txns),
              old |-> cards[m], recalc |-> recalc, statuses |-> statuses,
              rewritten |-> card # cards[m]]

\* The command `cmd` of message `e`, sent in reply to the card of message `m`:
\* AcceptShortHandler._cmd_accept_short up to try_edit_request, then
\* try_edit_request: apply_edit_delta, whose exception is answered and dropped,
\* then the card is rewritten unless the rewrite itself fails.
try_edit_request(h, chat_id, e, m, cmd, failAt, rewrite_fails) ==
    LET client_id   == chat_id
        acc_recv    == accounts[<<client_id, cmd.recv_code>>]
        acc_pay     == accounts[<<client_id, cmd.pay_code>>]
        recv_amount == quantize_amount(cmd.recv_raw, acc_recv.precision)
        pay_amount  == quantize_amount(cmd.pay_raw, acc_pay.precision)
        why         == rejection(cmd, acc_recv, acc_pay, recv_amount, pay_amount)
        new == [recv_code |-> cmd.recv_code, recv_amt |-> recv_amount,
                pay_code |-> cmd.pay_code, pay_amt |-> pay_amount]
        new_card == [shown |-> TRUE,
                     recv |-> format_amount_core(recv_amount, acc_recv.precision),
                     recv_code |-> to_lower(cmd.recv_code),
                     pay |-> format_amount_core(pay_amount, acc_pay.precision),
                     pay_code |-> to_lower(cmd.pay_code)]
    IN  IF why # "none"
        THEN edit_done(e, m, Ledger, cards[m], why, <<>>)
        ELSE
          \E plan \in {apply_edit_delta(h, cards[m], new, acc_recv.precision,
                                          acc_pay.precision, chat_id, m, e)} :
          \E calls \in {plan.calls} :
          \E r0 \in {[accounts |-> accounts, txns |-> txns, raised |-> FALSE,
                      statuses |-> <<>>]} :
          \E r1 \in {edit_step(r0, client_id, calls, 1, failAt)} :
          \E r2 \in {edit_step(r1, client_id, calls, 2, failAt)} :
          \E r3 \in {edit_step(r2, client_id, calls, 3, failAt)} :
          \E r4 \in {edit_step(r3, client_id, calls, 4, failAt)} :
              edit_done(e, m, r4, IF rewrite_fails THEN cards[m] ELSE new_card,
                        IF r4.raised THEN "raised"
                        ELSE IF plan.returned THEN "true" ELSE "false",
                        r4.statuses)

\* The Repo call of apply_edit_delta that raises, if any (0: none).
FailAt == {0, 1, 2, 3, 4}
NoFaults == [fA |-> "none", fB |-> "none", fC |-> "none", tail |-> "none"]

\* A request card already in the chat whose amount lines cannot be read (it
\* carries a request number, but was not written by process), and the command
\* it once answered.
UnreadableCard == [NoCard EXCEPT !.shown = TRUE]
OldCmd == [NoCmd EXCEPT !.recv_code = "?", !.pay_code = "?"]

\* Both accounts are open; the USD account has either precision.  The chat is
\* empty, or holds an unreadable card.
EditInit ==
    /\ \E p \in Precisions :
          accounts = [k \in Clients \X StoredCodes |->
                        IF k[2] = "USD"
                        THEN [id |-> 1, active |-> TRUE, deactivated |-> FALSE, precision |-> p,
                              balance |-> InitialBalance]
                        ELSE IF k[2] = "EUR"
                     THEN [id |-> 2, active |-> TRUE, deactivated |-> FALSE, precision |-> MaxPrec,
                              balance |-> InitialBalance]
                     ELSE NoRow]
    /\ txns = <<>>
    /\ ret = NoCall
    /\ ConcIdle
    /\ ClientIdle
    /\ PureIdle
    /\ GateIdle
    /\ handler \in Handlers
    /\ \/ /\ cmds = [m \in AllMsgIds |-> NoCmd]
          /\ cards = [m \in MsgIds |-> NoCard]
       \/ /\ cmds = [m \in AllMsgIds |-> IF m \in MsgIds THEN OldCmd ELSE NoCmd]
          /\ cards = [m \in MsgIds |-> UnreadableCard]
    /\ ex = NoEx
    /\ ed = NoEd
    /\ ca = NoCancel

\* A new exchange command is settled, the storage layer working.
Settle ==
    \E m \in MsgIds, cmd \in EditCmds :
        /\ cmds[m] = NoCmd
        /\ cmds' = [cmds EXCEPT ![m] = cmd]
        /\ process(handler, ChatId, m, cmd, NoFaults)
        /\ UNCHANGED <<ret, concVars, gateVars, clientVars, pureVars, handler, ed, ca>>

\* A message replying to a request card with a corrected command is handled;
\* the same message may be delivered, and handled, again.
EditRequest ==
    \E e \in EditMsgIds, m \in MsgIds, cmd \in EditCmds, failAt \in FailAt,
       rewrite_fails \in BOOLEAN :
        /\ cards[m].shown
        /\ cmds[e] \in {NoCmd, cmd}
        /\ cmds' = [cmds EXCEPT ![e] = cmd]
        /\ try_edit_request(handler, ChatId, e, m, cmd, failAt, rewrite_fails)
        /\ UNCHANGED <<ret, concVars, gateVars, clientVars, pureVars, handler, ex, ca>>

EditNext == Settle \/ EditRequest

SpecEdit == EditInit /\ [][EditNext]_vars

\* --------------------------------------- AcceptShortHandler._cb_cancel

\* A cancellation that carries no idempotency key to the Repo.
cancel_key_none(chat_id, card_msg_id, leg) == NoKey

\* idem_left / idem_right = f"cancel:{chat_id}:{msg.message_id}:recv" / ":pay"
cancel_key(chat_id, card_msg_id, leg) ==
    "cancel:" \o ToString(chat_id) \o ":" \o ToString(card_msg_id) \o ":" \o leg

\* The end of a run of _cb_cancel: tables and report.  The text the handler
\* appends to the card leaves the amount lines as they are.
cancel_done(m, led, outcome, statuses) ==
    /\ accounts' = led.accounts
    /\ txns' = led.txns
    /\ ca' = [msg |-> m, pre |-> accounts, pre_txns |-> Len(txns), outcome |-> outcome,
              statuses |-> statuses, presses |-> ca.presses + 1]

\* _cb_cancel for the card of message `m`: the amounts and codes are read
\* from the card, quantized at the accounts' precisions, the left leg is
\* deposited back and the right leg withdrawn, each under its cancel key; an
\* exception of either call ends the handler.
cb_cancel(chat_id, m, failAt) ==
    LET client_id == chat_id
        card      == cards[m]
        p_get     == _parse_amt_code(card.recv, card.recv_code)
        p_give    == _parse_amt_code(card.pay, card.pay_code)
        acc_recv  == accounts[<<client_id, p_get.code>>]
        acc_pay   == accounts[<<client_id, p_give.code>>]
        old       == old_request(card, acc_recv.precision, acc_pay.precision)
        calls     == << RepoCall("deposit", old.recv_code, old.recv_amt,
                                 cancel_key(chat_id, m, "recv")),
                        RepoCall("withdraw", old.pay_code, old.pay_amt,
                                 cancel_key(chat_id, m, "pay")) >>
    IN  IF ~old_parsable(card)
        THEN cancel_done(m, Ledger, "unparsed", <<>>)
        ELSE IF ~acc_recv.active \/ ~acc_pay.active
        THEN cancel_done(m, Ledger, "no_account", <<>>)
        ELSE
          \E r0 \in {[accounts |-> accounts, txns |-> txns, raised |-> FALSE,
                      statuses |-> <<>>]} :
          \E r1 \in {edit_step(r0, client_id, calls, 1, failAt)} :
          \E r2 \in {edit_step(r1, client_id, calls, 2, failAt)} :
              cancel_done(m, r2, IF r2.raised THEN "raised" ELSE "ok", r2.statuses)

\* The cards are those of AcceptShortHandler, whose callback _cb_cancel is.
CancelInit ==
    /\ EditInit
    /\ ~handler.recv_is_deposit /\ ~handler.pay_is_withdraw

\* The cancel button of a card is pressed; either Repo call may fail.
CancelPress ==
    \E m \in MsgIds, failAt \in {0, 1, 2} :
        /\ cards[m].shown
        /\ ca.presses < MaxClicks
        /\ cb_cancel(ChatId, m, failAt)
        /\ UNCHANGED <<ret, concVars, gateVars, clientVars, pureVars, handler, cmds, cards, ex, ed>>

CancelNext == Settle \/ CancelPress

SpecCancel == CancelInit /\ [][CancelNext]_vars

\* A corrected command replies to the card, the storage layer and the chat
\* platform working.
EditReply ==
    \E e \in EditMsgIds, m \in MsgIds, cmd \in EditCmds :
        /\ cards[m].shown
        /\ cmds[e] \in {NoCmd, cmd}
        /\ cmds' = [cmds EXCEPT ![e] = cmd]
        /\ try_edit_request(handler, ChatId, e, m, cmd, 0, FALSE)
        /\ UNCHANGED <<ret, concVars, gateVars, clientVars, pureVars, handler, ex, ca>>

CancelEditNext == Settle \/ CancelPress \/ EditReply

SpecCancelEdit == CancelInit /\ [][CancelEditNext]_vars

\* ------------------------------------------------------ Repo.ensure_client
\* Callers run ensure_client at once, each in its own storage transaction
\* (READ COMMITTED): the SELECT sees what has been committed, and the UPDATE or
\* INSERT is committed when the transaction block is left.

\* clients.is_active of a new row.
ClientActiveDefault == TRUE

\* SELECT id, name, city FROM clients WHERE chat_id=$1; 0 when there is none.
client_of(rows, chat_id) ==
    IF \E i \in DOMAIN rows : rows[i].chat_id = chat_id
    THEN CHOOSE i \in DOMAIN rows : rows[i].chat_id = chat_id
    ELSE 0

\* COALESCE($n, column)
COALESCE(value, stored) == IF value = Null THEN stored ELSE value

\* The uniqueness of clients.chat_id: a second row for a chat is refused.
clients_chat_id_unique(rows, chat_id) == client_of(rows, chat_id) = 0

\* if (name and row["name"] != name) or (city is not None and row["city"] != city)
needs_update(row, name, city) ==
    \/ name \notin {"", Null} /\ row.name # name
    \/ city # Null /\ row.city # city

EnsureBegin(w) ==
    \E name \in EnsureNames, city \in EnsureCities :
        /\ ens[w].pc = "idle"
        /\ ens' = [ens EXCEPT ![w] = [NoEnsure EXCEPT !.pc = "called", !.chat_id = ChatId,
                                                      !.name = name, !.city = city]]
        /\ UNCHANGED <<ledgerVars, ret, concVars, exchVars, gateVars, pureVars, clients>>

EnsureSelect(w) ==
    /\ ens[w].pc = "called"
    /\ ens' = [ens EXCEPT ![w].pc = "selected",
                          ![w].row = client_of(clients, ens[w].chat_id)]
    /\ UNCHANGED <<ledgerVars, ret, concVars, exchVars, gateVars, pureVars, clients>>

\* The row found is updated when an argument differs, and its id returned;
\* with no row found one is inserted, unless the chat has got one meanwhile.
EnsureWrite(w) ==
    LET e == ens[w]
    IN  /\ e.pc = "selected"
        /\ IF e.row # 0
           THEN /\ clients' = IF needs_update(clients[e.row], e.name, e.city)
                              THEN [clients EXCEPT ![e.row].name = COALESCE(e.name, @),
                                                   ![e.row].city = COALESCE(e.city, @)]
                              ELSE clients
                /\ ens' = [ens EXCEPT ![w].pc = "done", ![w].result = e.row]
           ELSE IF clients_chat_id_unique(clients, e.chat_id)
           THEN /\ clients' = Append(clients, [chat_id |-> e.chat_id, name |-> e.name,
                                               city |-> e.city, active |-> ClientActiveDefault])
                /\ ens' = [ens EXCEPT ![w].pc = "done", ![w].result = Len(clients) + 1]
           ELSE /\ clients' = clients
                /\ ens' = [ens EXCEPT ![w].pc = "done", ![w].err = "UniqueViolationError"]
        /\ UNCHANGED <<ledgerVars, ret, concVars, exchVars, gateVars, pureVars>>

\* The caller has its answer and may call again.
EnsureReturn(w) ==
    /\ ens[w].pc = "done"
    /\ ens' = [ens EXCEPT ![w] = NoEnsure]
    /\ UNCHANGED <<ledgerVars, ret, concVars, exchVars, gateVars, pureVars, clients>>

ClientsNext ==
    \/ \E w \in Workers : EnsureBegin(w)
    \/ \E w \in Workers : EnsureSelect(w)
    \/ \E w \in Workers : EnsureWrite(w)
    \/ \E w \in Workers : EnsureReturn(w)

SpecClients == Init /\ [][ClientsNext]_vars

\* Repo.remove_client, as ClientsHandler._cb_rmclient calls it: the client of
\* the chat is marked inactive; true when an active client was found.
remove_client(rows, chat_id) ==
    LET i == client_of(rows, chat_id)
    IN  IF i # 0 /\ rows[i].active THEN [rows EXCEPT ![i].active = FALSE] ELSE rows

RemoveClient ==
    /\ clients' = remove_client(clients, ChatId)
    /\ clients' # clients
    /\ UNCHANGED <<ledgerVars, ret, concVars, exchVars, gateVars, pureVars, ens>>

RemovalNext == ClientsNext \/ RemoveClient

SpecClientRemoval == Init /\ [][RemovalNext]_vars

\* ------------------------------------------------------------ Repo.history
\* The transactions of one account: row i has id i and event time times[i]
\* (txn_at is the caller's, or NOW(): two rows may carry the same time).

Times == 1..MaxRows
HistoryLimits == {1, 2}

\* (txn_at, id) of every row
RowKeys(times) == {<<times[i], i>> : i \in DOMAIN times}

\* A cursor that compares event times only.
cursor_after_time_only(k, cursor) == k[1] < cursor[1]

\* (txn_at, id) < ($n::timestamptz, $m)
cursor_after(k, cursor) == k[1] < cursor[1] \/ (k[1] = cursor[1] /\ k[2] < cursor[2])

\* txn_at >= since (when given) AND txn_at < until (when given)
in_window(k, since, until) ==
    /\ since = NoTime \/ k[1] >= since
    /\ until = NoTime \/ k[1] < until

\* ORDER BY txn_at DESC, id DESC
order_before(a, b) == a[1] > b[1] \/ (a[1] = b[1] /\ a[2] > b[2])

\* ... LIMIT n
RECURSIVE order_limit(_, _)
order_limit(S, n) ==
    IF n = 0 \/ S = {} THEN <<>>
    ELSE LET first == CHOOSE k \in S : \A o \in S : o = k \/ order_before(k, o)
         IN  <<first>> \o order_limit(S \ {first}, n - 1)

history(times, limit, since, until, cursor) ==
    order_limit({k \in RowKeys(times) :
                    /\ in_window(k, since, until)
                    /\ cursor = <<>> \/ cursor_after(k, cursor)},
                limit)

HistoryInit ==
    /\ accounts = [k \in Clients \X StoredCodes |-> NoRow]
    /\ txns = <<>>
    /\ ret = NoCall
    /\ ConcIdle
    /\ ClientIdle
    /\ GateIdle
    /\ ExchIdle
    /\ qz = NoQuantize
    /\ undo_registry = NoRegistry
    /\ dedup = NoDedup
    /\ lk = NoLocks
    /\ \E t \in [1..MaxRows -> Times], s \in Times \cup {NoTime},
          u \in Times \cup {NoTime}, l \in HistoryLimits :
           hq = [NoQuery EXCEPT !.times = t, !.since = s, !.until = u, !.limit = l]

\* The caller asks for the next page, passing as cursor the (txn_at, id) of
\* the last row it got; an empty page ends the paging.
FetchPage ==
    /\ hq.limit > 0
    /\ ~hq.done
    /\ \E page \in {history(hq.times, hq.limit, hq.since, hq.until, hq.cursor)} :
           hq' = [hq EXCEPT !.got = @ \o page,
                            !.cursor = IF page = <<>> THEN @ ELSE page[Len(page)],
                            !.pages = @ + 1,
                            !.done = page = <<>>]
    /\ UNCHANGED <<ledgerVars, ret, concVars, clientVars, exchVars, gateVars, qz, undo_registry, dedup, lk>>

SpecHistory == HistoryInit /\ [][FetchPage]_vars

\* --------------------------------------------------------- quantize_amount

QuantizeValues == -25..25

QuantizeInit ==
    /\ accounts = [k \in Clients \X StoredCodes |-> NoRow]
    /\ txns = <<>>
    /\ ret = NoCall
    /\ ConcIdle
    /\ ClientIdle
    /\ GateIdle
    /\ ExchIdle
    /\ hq = NoQuery
    /\ undo_registry = NoRegistry
    /\ dedup = NoDedup
    /\ lk = NoLocks
    /\ \E v \in QuantizeValues, p \in Precisions :
           qz = [NoQuantize EXCEPT !.value = v, !.precision = p]

Quantize ==
    /\ ~qz.done
    /\ qz' = [qz EXCEPT !.result = quantize_amount(qz.value, qz.precision), !.done = TRUE]
    /\ UNCHANGED <<ledgerVars, ret, concVars, clientVars, exchVars, gateVars, hq, undo_registry, dedup, lk>>

SpecQuantize == QuantizeInit /\ [][Quantize]_vars

\* ------------------------------------------------------------ UndoRegistry
\* (chat_id, message_id) keys, and the sizes the two caches are built with.
CacheKeys == {1, 2} \X {1, 2}
CacheSizes == {1, 2}

\* self._seen.move_to_end(key) on an OrderedDict kept oldest first
move_to_end(s, key) == SelectSeq(s, LAMBDA x : x # key) \o <<key>>

\* A mark_done that leaves a key it already holds in its place.
mark_done_in_place(s, key, max) ==
    LET put == IF \E i \in DOMAIN s : s[i] = key THEN s ELSE Append(s, key)
    IN  IF Len(put) > max THEN Tail(put) ELSE put

\* self._seen[key] = True; move_to_end(key); popitem(last=False) when too long
mark_done(s, key, max) ==
    LET put == move_to_end(s, key)
    IN  IF Len(put) > max THEN Tail(put) ELSE put

\* key in self._seen
is_done(s, key) == \E i \in DOMAIN s : s[i] = key

RegistryInit ==
    /\ accounts = [k \in Clients \X StoredCodes |-> NoRow]
    /\ txns = <<>>
    /\ ret = NoCall
    /\ ConcIdle
    /\ ClientIdle
    /\ GateIdle
    /\ ExchIdle
    /\ hq = NoQuery
    /\ qz = NoQuantize
    /\ dedup = NoDedup
    /\ lk = NoLocks
    /\ \E n \in CacheSizes : undo_registry = [NoRegistry EXCEPT !.max = n]

MarkDone ==
    /\ Len(undo_registry.log) < MaxMarks
    /\ \E key \in CacheKeys :
           undo_registry' = [undo_registry EXCEPT
                                !.seen = mark_done(@, key, undo_registry.max),
                                !.log = Append(@, key),
                                !.asked = <<>>, !.done = FALSE]
    /\ UNCHANGED <<ledgerVars, ret, concVars, clientVars, exchVars, gateVars, hq, qz, dedup, lk>>

IsDone ==
    /\ \E key \in CacheKeys :
           undo_registry' = [undo_registry EXCEPT
                                !.asked = key, !.done = is_done(undo_registry.seen, key)]
    /\ UNCHANGED <<ledgerVars, ret, concVars, clientVars, exchVars, gateVars, hq, qz, dedup, lk>>

RegistryNext == MarkDone \/ IsDone

SpecRegistry == RegistryInit /\ [][RegistryNext]_vars

\* --------------------------------------------------------- DedupMiddleware
\* _key(event): None for an event that is neither a message nor a callback.
NoneKey == <<>>

\* A middleware that drops the newest key when it holds too many.
dedup_call_pop_last(s, key, maxsize) ==
    IF key = NoneKey THEN [seen |-> s, passed |-> TRUE]
    ELSE IF \E i \in DOMAIN s : s[i] = key THEN [seen |-> s, passed |-> FALSE]
    ELSE LET put == Append(s, key)
         IN  [seen |-> IF Len(put) > maxsize THEN SubSeq(put, 1, Len(put) - 1) ELSE put,
              passed |-> TRUE]

\* DedupMiddleware.__call__ up to the handler: the keys remembered afterwards
\* and whether the event goes on to the handler.
dedup_call(s, key, maxsize) ==
    IF key = NoneKey THEN [seen |-> s, passed |-> TRUE]
    ELSE IF \E i \in DOMAIN s : s[i] = key THEN [seen |-> s, passed |-> FALSE]
    ELSE LET put == Append(s, key)
         IN  [seen |-> IF Len(put) > maxsize THEN Tail(put) ELSE put, passed |-> TRUE]

DedupInit ==
    /\ accounts = [k \in Clients \X StoredCodes |-> NoRow]
    /\ txns = <<>>
    /\ ret = NoCall
    /\ ConcIdle
    /\ ClientIdle
    /\ GateIdle
    /\ ExchIdle
    /\ hq = NoQuery
    /\ qz = NoQuantize
    /\ undo_registry = NoRegistry
    /\ \E n \in CacheSizes : dedup = [NoDedup EXCEPT !.max = n]
    /\ lk = NoLocks

\* An update is delivered; the handler, when it is called, returns or raises.
Deliver ==
    /\ Len(dedup.log) < MaxDeliveries
    /\ \E key \in ({1} \X {1, 2, 3}) \cup {NoneKey}, raised \in BOOLEAN :
       \E r \in {dedup_call(dedup.seen, key, dedup.max)} :
           /\ ~r.passed => ~raised
           /\ dedup' = [dedup EXCEPT
                           !.seen = r.seen,
                           !.log = Append(@, key),
                           !.calls = IF r.passed
                                     THEN Append(@, [key |-> key, at |-> Len(dedup.log) + 1,
                                                     raised |-> raised])
                                     ELSE @]
    /\ UNCHANGED <<ledgerVars, ret, concVars, clientVars, exchVars, gateVars, hq, qz, undo_registry, lk>>

SpecDedup == DedupInit /\ [][Deliver]_vars

\* ---------------------------------------------------- handlers/wallets.py

_normalize_code_alias(raw_code) == to_upper(raw_code)

\* An undo that carries no idempotency key to the Repo.
undo_key_none(chat_id, msg_id) == NoKey

\* idempotency_key=f"undo:{chat_id}:{msg_id}"
undo_key(chat_id, msg_id) == "undo:" \o ToString(chat_id) \o ":" \o ToString(msg_id)

\* idem = f"{chat_id}:{message.message_id}"
change_key(chat_id, message_id) == ToString(chat_id) \o ":" \o ToString(message_id)

\* callback data "undo:{CODE}:{sign}:{amount}"
undo_kb(code, sign, amount) == [code |-> to_upper(code), sign |-> sign, amt |-> amount]

\* _on_currency_change inside the chat lock, for the command of message `m`:
\* the account is looked up, the amount quantized and applied under the
\* message's key, and the answer carries the undo keyboard.  An exception of
\* the Repo is answered and no keyboard is sent.
on_currency_change(chat_id, m, amount, fault) ==
    LET client_id == chat_id
        code == _normalize_code_alias(ChangeCode)
        acc == accounts[<<client_id, code>>]
        delta_quant == quantize_amount(Abs(amount), acc.precision)
        idem == change_key(chat_id, m)
    IN  IF acc.id = 0 \/ ~acc.active \/ delta_quant = 0
        THEN UNCHANGED <<accounts, txns, buttons>>
        ELSE \E r \in {IF amount > 0
                       THEN deposit(Ledger, client_id, code, delta_quant, idem, fault)
                       ELSE withdraw(Ledger, client_id, code, delta_quant, idem, fault)} :
                 /\ accounts' = r.accounts
                 /\ txns' = r.txns
                 /\ buttons' = IF r.err # "none" THEN buttons
                               ELSE [buttons EXCEPT ![AnswerTo(m)] =
                                        undo_kb(code, IF amount > 0 THEN "+" ELSE "-", delta_quant)]

\* An undo that marks its key done before it looks at what the Repo call
\* returned.
cb_undo_mark_first(chat_id, b, fault) ==
    LET client_id == chat_id
        kb == buttons[b]
        key == undo_key(chat_id, b)
    IN  IF b \in seen
        THEN /\ UNCHANGED <<accounts, txns, seen>>
             /\ un' = [un EXCEPT ![b].ok = @ + 1]
        ELSE \E exist \in {IdemLookup(txns, client_id, key)} :
             \E r \in {IF kb.sign = "+"
                       THEN withdraw(Ledger, client_id, kb.code, kb.amt, key, fault)
                       ELSE deposit(Ledger, client_id, kb.code, kb.amt, key, fault)} :
                 /\ accounts' = r.accounts
                 /\ txns' = r.txns
                 /\ seen' = seen \cup {b}
                 /\ un' = IF r.err # "none" THEN un
                          ELSE [un EXCEPT ![b].ok = @ + 1,
                                          ![b].hits = @ + (IF exist # 0 THEN 1 ELSE 0)]

\* _cb_undo inside the chat lock, for the keyboard of bot message `b`: a key
\* the registry holds is answered without a Repo call; else the opposite
\* operation is applied under the undo key and, unless the Repo raised, the
\* key is marked done.
cb_undo(chat_id, b, fault) ==
    LET client_id == chat_id
        kb == buttons[b]
        key == undo_key(chat_id, b)
    IN  IF b \in seen
        THEN /\ UNCHANGED <<accounts, txns, seen>>
             /\ un' = [un EXCEPT ![b].ok = @ + 1]
        ELSE \E exist \in {IdemLookup(txns, client_id, key)} :
             \E r \in {IF kb.sign = "+"
                       THEN withdraw(Ledger, client_id, kb.code, kb.amt, key, fault)
                       ELSE deposit(Ledger, client_id, kb.code, kb.amt, key, fault)} :
                 /\ accounts' = r.accounts
                 /\ txns' = r.txns
                 /\ seen' = IF r.err = "none" THEN seen \cup {b} ELSE seen
                 /\ un' = IF r.err # "none" THEN un
                          ELSE [un EXCEPT ![b].ok = @ + 1,
                                          ![b].hits = @ + (IF exist # 0 THEN 1 ELSE 0)]

\* The USD account has either precision; each balance command carries one of
\* the amounts.
WalletInit ==
    /\ \E p \in Precisions :
           accounts = [k \in Clients \X StoredCodes |->
                          IF k[2] = "USD"
                          THEN [id |-> 1, active |-> TRUE, deactivated |-> FALSE, precision |-> p,
                                balance |-> InitialBalance]
                          ELSE IF k[2] = "EUR"
                     THEN [id |-> 2, active |-> TRUE, deactivated |-> FALSE, precision |-> MaxPrec,
                                balance |-> InitialBalance]
                     ELSE NoRow]
    /\ txns = <<>>
    /\ ret = NoCall
    /\ ConcIdle
    /\ ClientIdle
    /\ PureIdle
    /\ ExchIdle
    /\ chatLock = 0
    /\ job = [w \in Workers |-> NoJob]
    /\ seen = {}
    /\ buttons = [b \in UndoMsgIds |-> NoButton]
    /\ changes \in [ChangeMsgIds -> ChangeAmounts]
    /\ un = [b \in UndoMsgIds |-> NoUndo]

\* A balance command arrives and is parsed; it has not been answered yet.
ChangeArrive(w) ==
    \E m \in ChangeMsgIds :
        /\ job[w] = NoJob
        /\ buttons[AnswerTo(m)] = NoButton
        /\ \A v \in Workers : job[v].msg # m
        /\ job' = [job EXCEPT ![w] = [op |-> "change", msg |-> m, stage |-> "wait"]]
        /\ UNCHANGED <<ledgerVars, ret, concVars, clientVars, pureVars, exchVars, chatLock, seen, buttons, changes, un>>

\* The undo keyboard of a bot message is pressed.
UndoClick(w) ==
    \E b \in UndoMsgIds :
        /\ job[w] = NoJob
        /\ buttons[b] # NoButton
        /\ un[b].tries < MaxClicks
        /\ job' = [job EXCEPT ![w] = [op |-> "undo", msg |-> b, stage |-> "wait"]]
        /\ un' = [un EXCEPT ![b].tries = @ + 1]
        /\ UNCHANGED <<ledgerVars, ret, concVars, clientVars, pureVars, exchVars, chatLock, seen, buttons, changes>>

\* async with chat_locks.for_chat(chat_id): the lock is taken when free.
Acquire(w) ==
    /\ job[w].stage = "wait"
    /\ chatLock = 0
    /\ chatLock' = w
    /\ job' = [job EXCEPT ![w].stage = "in"]
    /\ UNCHANGED <<ledgerVars, ret, concVars, clientVars, pureVars, exchVars, seen, buttons, changes, un>>

\* The body of _on_currency_change, and the lock released.
ChangeRun(w) ==
    \E fault \in Faults :
        /\ job[w].stage = "in"
        /\ job[w].op = "change"
        /\ on_currency_change(ChatId, job[w].msg, changes[job[w].msg], fault)
        /\ chatLock' = 0
        /\ job' = [job EXCEPT ![w] = NoJob]
        /\ UNCHANGED <<ret, concVars, clientVars, pureVars, exchVars, seen, changes, un>>

\* The body of _cb_undo, and the lock released.
UndoRun(w) ==
    \E fault \in Faults :
        /\ job[w].stage = "in"
        /\ job[w].op = "undo"
        /\ cb_undo(ChatId, job[w].msg, fault)
        /\ chatLock' = 0
        /\ job' = [job EXCEPT ![w] = NoJob]
        /\ UNCHANGED <<ret, concVars, clientVars, pureVars, exchVars, buttons, changes>>

\* UndoRegistry.mark_done for keys of other chats pushes the oldest key out
\* (popitem(last=False)); a restart of the bot empties the registry as well.
Evict ==
    \E b \in seen :
        /\ seen' = seen \ {b}
        /\ UNCHANGED <<ledgerVars, ret, concVars, clientVars, pureVars, exchVars, chatLock, job, buttons, changes, un>>

UndoNext ==
    \/ \E w \in Workers : ChangeArrive(w)
    \/ \E w \in Workers : UndoClick(w)
    \/ \E w \in Workers : Acquire(w)
    \/ \E w \in Workers : ChangeRun(w)
    \/ \E w \in Workers : UndoRun(w)
    \/ Evict

SpecUndo == WalletInit /\ [][UndoNext]_vars

\* The callback data of a press: the data of the keyboard the bot sent, or
\* data of a client's own making whose amount Decimal() rejects or whose sign
\* is neither "+" nor "-".
UndoData == {"kb", "bad_amount", "bad_sign"}

\* _cb_undo inside the chat lock for callback data `data`: the registry is
\* asked first; after it an unparsable amount or an unknown sign is answered
\* and the handler returns without a Repo call and without mark_done.
cb_undo_data(chat_id, b, data, fault) ==
    IF b \in seen \/ data = "kb"
    THEN cb_undo(chat_id, b, fault)
    ELSE UNCHANGED <<accounts, txns, seen, un>>

\* The body of _cb_undo for any callback data, and the lock released.
UndoPress(w) ==
    \E fault \in Faults, data \in UndoData :
        /\ job[w].stage = "in"
        /\ job[w].op = "undo"
        /\ cb_undo_data(ChatId, job[w].msg, data, fault)
        /\ chatLock' = 0
        /\ job' = [job EXCEPT ![w] = NoJob]
        /\ UNCHANGED <<ret, concVars, clientVars, pureVars, exchVars, buttons, changes>>

\* _cb_rmcur: the chat's account of the balance commands is deactivated.
WalletRemove ==
    /\ accounts[<<ChatId, to_upper(ChangeCode)>>].active
    /\ remove_currency(ChatId, ChangeCode)
    /\ UNCHANGED <<concVars, clientVars, pureVars, exchVars, gateVars>>

\* _cmd_addcur: the deactivated account is opened again at its precision.
WalletAdd ==
    /\ ~accounts[<<ChatId, to_upper(ChangeCode)>>].active
    /\ add_currency(ChatId, ChangeCode, accounts[<<ChatId, to_upper(ChangeCode)>>].precision)
    /\ UNCHANGED <<concVars, clientVars, pureVars, exchVars, gateVars>>

RetryNext ==
    \/ \E w \in Workers : ChangeArrive(w)
    \/ \E w \in Workers : UndoClick(w)
    \/ \E w \in Workers : Acquire(w)
    \/ \E w \in Workers : ChangeRun(w)
    \/ \E w \in Workers : UndoPress(w)
    \/ WalletRemove
    \/ WalletAdd

SpecUndoRetry == WalletInit /\ [][RetryNext]_vars

\* ------------------------------------------- utils/locks.py and the locks' users

\* asyncio.Lock.acquire: taken at once when the lock is free and nobody waits,
\* else the caller joins the waiters (first in, first woken).
lock_acquire(l, w) ==
    IF l.holder = 0 /\ l.waiters = <<>>
    THEN [l EXCEPT !.holder = w]
    ELSE [l EXCEPT !.waiters = Append(@, w)]

\* asyncio.Lock.release: the lock is free and its first waiter is woken.
lock_release(l) == [l EXCEPT !.holder = 0]

\* The woken waiter takes the lock.
lock_wake(l) == [holder |-> Head(l.waiters), waiters |-> Tail(l.waiters)]

\* A chat lock released by hand at the normal end of the body only.
leave_chat_normal_end(l, path) == IF path = "ok" THEN lock_release(l) ELSE l

\* The end of `async with chat_locks.for_chat(chat_id)`: __aexit__ releases
\* the lock however the body ended.
leave_chat(l, path) == lock_release(l)

\* How the body of a handler ends: _on_currency_change returns early, raises
\* or runs to its end; _cb_undo finds the key done, cannot parse the amount,
\* finds an unknown sign, gets an exception of the Repo, or runs to its end.
ExitPaths(op) ==
    IF op = "change" THEN {"return", "raise", "ok"}
    ELSE {"done", "bad_amount", "bad_sign", "raise", "ok"}

LocksInit ==
    /\ accounts = [k \in Clients \X StoredCodes |-> NoRow]
    /\ txns = <<>>
    /\ ret = NoCall
    /\ ConcIdle
    /\ ClientIdle
    /\ GateIdle
    /\ ExchIdle
    /\ PureIdle

LocksUnchanged == UNCHANGED <<ledgerVars, ret, concVars, clientVars, exchVars, gateVars, hq, qz, undo_registry, dedup>>

\* A balance command or an undo press of chat c reaches its handler, which
\* asks for the chat's lock: chat_locks.for_chat(chat_id) is one lock per chat.
LockArrive(w) ==
    \E c \in LockChats, op \in {"change", "undo"} :
        /\ lk.h[w].pos = "idle"
        /\ \E l \in {lock_acquire(lk.chat[c], w)} :
               lk' = [lk EXCEPT !.chat[c] = l,
                                !.h[w] = [chat |-> c, op |-> op, path |-> "none",
                                          pos |-> IF l.holder = w THEN "in" ELSE "wait",
                                          waited |-> l.holder # w]]
        /\ LocksUnchanged

\* A handler woken as the first waiter of its chat's lock enters the body.
ChatAcquire(w) ==
    /\ lk.h[w].pos = "wait"
    /\ \E c \in {lk.h[w].chat} :
           /\ lk.chat[c].holder = 0
           /\ lk.chat[c].waiters # <<>>
           /\ Head(lk.chat[c].waiters) = w
           /\ lk' = [lk EXCEPT !.chat[c] = lock_wake(@), !.h[w].pos = "in"]
    /\ LocksUnchanged

\* The body of _on_currency_change, ended by any of its paths: it takes no
\* other lock.
ChangeBody(w) ==
    \E path \in ExitPaths("change") :
        /\ lk.h[w].pos = "in"
        /\ lk.h[w].op = "change"
        /\ lk' = [lk EXCEPT !.h[w].pos = "out", !.h[w].path = path]
        /\ LocksUnchanged

\* _cb_undo calls undo_registry.is_done at the start of its body and, when
\* the Repo call returned, undo_registry.mark_done: each asks for the
\* registry's lock.
RegEnter(w) ==
    /\ lk.h[w].op = "undo"
    /\ lk.h[w].pos \in {"in", "mid"}
    /\ \E l \in {lock_acquire(lk.reg, w)} :
           lk' = [lk EXCEPT !.reg = l,
                            !.h[w].pos = IF l.holder = w
                                         THEN (IF lk.h[w].pos = "in" THEN "is_done" ELSE "mark_done")
                                         ELSE (IF lk.h[w].pos = "in" THEN "is_done_wait" ELSE "mark_done_wait")]
    /\ LocksUnchanged

\* A handler woken as the first waiter of the registry's lock enters the
\* method.
RegAcquire(w) ==
    /\ lk.h[w].pos \in {"is_done_wait", "mark_done_wait"}
    /\ lk.reg.holder = 0
    /\ lk.reg.waiters # <<>>
    /\ Head(lk.reg.waiters) = w
    /\ lk' = [lk EXCEPT !.reg = lock_wake(@),
                        !.h[w].pos = IF lk.h[w].pos = "is_done_wait" THEN "is_done" ELSE "mark_done"]
    /\ LocksUnchanged

\* The end of `async with self._lock` in is_done (by its return) and in
\* mark_done.  What is_done returned and what follows it decide the path of
\* the body: only the path to the end goes on to the Repo call and mark_done.
RegLeave(w) ==
    \E path \in ExitPaths("undo") :
        /\ lk.h[w].pos \in {"is_done", "mark_done"}
        /\ lk.h[w].pos = "mark_done" => path = "ok"
        /\ lk' = [lk EXCEPT !.reg = lock_release(@),
                            !.h[w].path = path,
                            !.h[w].pos = IF lk.h[w].pos = "is_done" /\ path = "ok"
                                         THEN "mid" ELSE "out"]
        /\ LocksUnchanged

\* The body has ended, by whichever path, and the chat's lock is released.
LockLeave(w) ==
    /\ lk.h[w].pos = "out"
    /\ lk' = [lk EXCEPT !.chat[lk.h[w].chat] = leave_chat(@, lk.h[w].path),
                        !.h[w] = NoHandler]
    /\ LocksUnchanged

LocksStep(w) ==
    \/ ChatAcquire(w)
    \/ ChangeBody(w)
    \/ RegEnter(w)
    \/ RegAcquire(w)
    \/ RegLeave(w)
    \/ LockLeave(w)

LocksNext == \E w \in Workers : LockArrive(w) \/ LocksStep(w)

\* The event loop runs every task that can run, and every Repo and Bot call
\* of a body returns: no step of a handler that has arrived stays enabled
\* for ever without being taken.
SpecLocks == LocksInit /\ [][LocksNext]_vars /\ \A w \in Workers : WF_vars(LocksStep(w))

\* _on_currency_change inside the chat lock, statement by statement: the
\* Repo calls first, then message.answer with the undo keyboard, and only then
\* is the lock left.  The Repo part: an exception, or a command that is
\* refused, is answered without a keyboard.
ChangeApply(w) ==
    \E fault \in Faults :
        LET m == job[w].msg
            amount == changes[m]
            code == _normalize_code_alias(ChangeCode)
            acc == accounts[<<ChatId, code>>]
            delta_quant == quantize_amount(Abs(amount), acc.precision)
            idem == change_key(ChatId, m)
        IN  /\ job[w].stage = "in"
            /\ job[w].op = "change"
            /\ IF acc.id = 0 \/ ~acc.active \/ delta_quant = 0
               THEN /\ UNCHANGED <<accounts, txns>>
                    /\ job' = [job EXCEPT ![w].stage = "answer"]
               ELSE \E r \in {IF amount > 0
                              THEN deposit(Ledger, ChatId, code, delta_quant, idem, fault)
                              ELSE withdraw(Ledger, ChatId, code, delta_quant, idem, fault)} :
                        /\ accounts' = r.accounts
                        /\ txns' = r.txns
                        /\ job' = [job EXCEPT ![w].stage =
                                      IF r.err = "none" THEN "answer_kb" ELSE "answer"]
            /\ UNCHANGED <<ret, concVars, clientVars, pureVars, exchVars, chatLock, seen, buttons, changes, un>>

\* await message.answer(...): the chat platform has taken the answer (with the
\* undo keyboard after a successful Repo call); the `async with` block ends
\* and the lock is released.
ChangeAnswer(w) ==
    LET m == job[w].msg
        amount == changes[m]
        code == _normalize_code_alias(ChangeCode)
        delta_quant == quantize_amount(Abs(amount), accounts[<<ChatId, code>>].precision)
    IN  /\ job[w].stage \in {"answer", "answer_kb"}
        /\ buttons' = IF job[w].stage = "answer"
                      THEN buttons
                      ELSE [buttons EXCEPT ![AnswerTo(m)] =
                               undo_kb(code, IF amount > 0 THEN "+" ELSE "-", delta_quant)]
        /\ chatLock' = 0
        /\ job' = [job EXCEPT ![w] = NoJob]
        /\ UNCHANGED <<ledgerVars, ret, concVars, clientVars, pureVars, exchVars, seen, changes, un>>

AnswerNext ==
    \/ \E w \in Workers : ChangeArrive(w)
    \/ \E w \in Workers : Acquire(w)
    \/ \E w \in Workers : ChangeApply(w)
    \/ \E w \in Workers : ChangeAnswer(w)

SpecAnswer == WalletInit /\ [][AnswerNext]_vars

\* An exchange command of the same chat is settled by process, which takes
\* no lock (one amount, two different currencies).
GateCmds == {c \in EditCmds : c.recv_code # c.pay_code /\ c.recv_raw = c.pay_raw}

GateSettle ==
    \E m \in MsgIds, cmd \in GateCmds :
        /\ cmds[m] = NoCmd
        /\ cmds' = [cmds EXCEPT ![m] = cmd]
        /\ process(handler, ChatId, m, cmd, NoFaults)
        /\ UNCHANGED <<ret, concVars, gateVars, clientVars, pureVars, handler, ed, ca>>

\* The wallet handlers together with the exchange handler.
GateNext == UndoNext \/ GateSettle

SpecGate == WalletInit /\ [][GateNext]_vars

\* --------------------------------------------------- exchange properties

\* The command the last run of process handled, its two quantized leg deltas
\* with their signs, and the accounts before and after the run.
ExCmd == cmds[ex.msg]
PreBal(code) == ex.pre[<<ChatId, code>>].balance
Bal(code) == accounts[<<ChatId, code>>].balance
LegADelta ==
    LET q == quantize_amount(ExCmd.recv_raw,
                             ex.pre[<<ChatId, ExCmd.recv_code>>].precision)
    IN  IF handler.recv_is_deposit THEN q ELSE -q
LegBDelta ==
    LET q == quantize_amount(ExCmd.pay_raw,
                             ex.pre[<<ChatId, ExCmd.pay_code>>].precision)
    IN  IF handler.pay_is_withdraw THEN -q ELSE q
\* The change of the account `code` when leg A (a) and leg B (b) take effect.
LegsChange(code, a, b) ==
    (IF a /\ code = ExCmd.recv_code THEN LegADelta ELSE 0)
    + (IF b /\ code = ExCmd.pay_code THEN LegBDelta ELSE 0)
\* A Transaction under `key` was recorded before the last run began.
KeyBefore(key) ==
    \E i \in 1..ex.pre_txns : txns[i].client = ChatId /\ txns[i].key = key
ExKeyA == idem_key(ChatId, ex.msg, "recv")
ExKeyB == idem_key(ChatId, ex.msg, "pay")
ExKeyUndo == ExKeyA \o ":undo"
Bit(b) == IF b THEN 1 ELSE 0

\* C6 (as stated): every completion of process that reports no failure, a
\* re-processing of the same message included, leaves both balances changed
\* by exactly the two quantized leg deltas, each leg recorded as exactly one
\* Transaction.
C6_EveryCompletionMovesBalances ==
    ex.outcome = "ok" =>
        /\ \A code \in Codes : Bal(code) - PreBal(code) = LegsChange(code, TRUE, TRUE)
        /\ Cardinality(Recorded(ChatId, ExKeyA)) = 1
        /\ Cardinality(Recorded(ChatId, ExKeyB)) = 1

\* C6 (amended): when process completes without reporting a failure, each leg
\* whose key was not recorded before the run changes its account by exactly
\* its quantized delta and adds one Transaction; a leg whose key was already
\* recorded (a re-processing) changes nothing and adds nothing; either way
\* each leg is recorded as exactly one Transaction.
C6_ConservationOnSuccess ==
    ex.outcome = "ok" =>
        /\ \A code \in Codes :
              Bal(code) - PreBal(code)
                  = LegsChange(code, ~KeyBefore(ExKeyA), ~KeyBefore(ExKeyB))
        /\ Len(txns) - ex.pre_txns
              = Bit(~KeyBefore(ExKeyA)) + Bit(~KeyBefore(ExKeyB))
        /\ Cardinality(Recorded(ChatId, ExKeyA)) = 1
        /\ Cardinality(Recorded(ChatId, ExKeyB)) = 1

C6_Witness ==
    /\ ex.outcome = "ok"
    /\ ~KeyBefore(ExKeyA) /\ ~KeyBefore(ExKeyB)
    /\ ExCmd.recv_code # ExCmd.pay_code
    /\ Bal(ExCmd.recv_code) # PreBal(ExCmd.recv_code)
    /\ Bal(ExCmd.pay_code) # PreBal(ExCmd.pay_code)

\* C7: when leg A was applied, leg B failed and the compensating call
\* returned, both accounts hold their balances from before the run.
C7_CompensationNetZero ==
    (ex.legA = "applied" /\ ex.legB = "failed" /\ ex.comp \in {"applied", "hit"})
        => \A code \in Codes : Bal(code) = PreBal(code)

\* C8: the compensating call is issued only after leg A succeeded and leg B
\* failed; when leg A itself fails, no Transaction is recorded and the leg-A
\* balance stays where it was.
C8_CompensationOnlyForLegB ==
    /\ ex.comp # "none" => (ex.legA \in {"applied", "hit"} /\ ex.legB = "failed")
    /\ ex.legA = "failed" =>
          /\ Len(txns) = ex.pre_txns
          /\ Bal(ExCmd.recv_code) = PreBal(ExCmd.recv_code)

\* C9: when leg B and the compensating call both fail, the reported failure
\* names both the leg failure and the compensation failure.
C9_BothFailuresReported ==
    (ex.legB = "failed" /\ ex.comp = "failed")
        => {c.of : c \in ex.causes} = {"leg", "compensation"}

\* ------------------------------------------------------- edit properties

\* The last run of try_edit_request: the corrected command and its quantized
\* amounts, the amounts and currencies the card showed before the run, and
\* the direction of each leg.
EdCmd == cmds[ed.msg]
EdPreBal(code) == ed.pre[<<ChatId, code>>].balance
EdPrec(code) == ed.pre[<<ChatId, code>>].precision
EdNewRecv == quantize_amount(EdCmd.recv_raw, EdPrec(EdCmd.recv_code))
EdNewPay == quantize_amount(EdCmd.pay_raw, EdPrec(EdCmd.pay_code))
EdOldRecv == _parse_amt_code(ed.old.recv, ed.old.recv_code)
EdOldPay == _parse_amt_code(ed.old.pay, ed.old.pay_code)
RecvUnchanged == EdOldRecv.code = EdCmd.recv_code
PayUnchanged == EdOldPay.code = EdCmd.pay_code
RecvDir == IF handler.recv_is_deposit THEN 1 ELSE -1
PayDir == IF handler.pay_is_withdraw THEN -1 ELSE 1
EdKey(suffix) == edit_key(ChatId, ed.target, ed.msg, suffix)
EdRecvKeys == {EdKey(x) : x \in {"revert:recv", "apply:recv", "delta+:recv", "delta-:recv"}}
EdPayKeys == {EdKey(x) : x \in {"revert:pay", "apply:pay", "delta+:pay", "delta-:pay"}}
\* No Transaction of this edit was recorded before the run began.
EdFresh ==
    \A i \in 1..ed.pre_txns : txns[i].key \notin (EdRecvKeys \cup EdPayKeys)
\* The sum of the amounts the run recorded under `keys`.
RECURSIVE NetRecorded(_, _)
NetRecorded(keys, i) ==
    IF i > Len(txns) THEN 0
    ELSE (IF txns[i].key \in keys THEN txns[i].amount ELSE 0)
         + NetRecorded(keys, i + 1)
\* The change a single apply of (new - old) in each unchanged leg's direction
\* makes to the account `code`.
EdDeltaChange(code) ==
    (IF code = EdCmd.recv_code THEN RecvDir * (EdNewRecv - EdOldRecv.amt) ELSE 0)
    + (IF code = EdCmd.pay_code THEN PayDir * (EdNewPay - EdOldPay.amt) ELSE 0)

\* C10: when apply_edit_delta completes an edit for the first time, every leg
\* whose currency is unchanged moves its account by (new amount - old amount)
\* in the leg's direction, for either direction: with both currencies
\* unchanged each balance is what single applies of the deltas produce, and
\* with the other currency changed the leg's recorded amounts add up to its
\* delta.
C10_DeltaAsSingleApply ==
    (ed.recalc = "true" /\ EdFresh) =>
        /\ (RecvUnchanged /\ PayUnchanged) =>
              \A code \in Codes :
                  accounts[<<ChatId, code>>].balance
                      = quantize_amount(EdPreBal(code) + EdDeltaChange(code),
                                        EdPrec(code))
        /\ RecvUnchanged =>
              NetRecorded(EdRecvKeys, ed.pre_txns + 1)
                  = RecvDir * (EdNewRecv - EdOldRecv.amt)
        /\ PayUnchanged =>
              NetRecorded(EdPayKeys, ed.pre_txns + 1)
                  = PayDir * (EdNewPay - EdOldPay.amt)

C10_Witness ==
    /\ ed.recalc = "true" /\ EdFresh
    /\ RecvUnchanged /\ PayUnchanged
    /\ EdCmd.recv_code # EdCmd.pay_code
    /\ EdNewRecv > EdOldRecv.amt
    /\ EdNewPay < EdOldPay.amt
    /\ Bal(EdCmd.recv_code) - EdPreBal(EdCmd.recv_code) = RecvDir * (EdNewRecv - EdOldRecv.amt)

\* The change that undoing both old legs and applying both new legs makes to
\* the account `code`.
EdReplaceChange(code) ==
    (IF code = EdOldRecv.code THEN -RecvDir * EdOldRecv.amt ELSE 0)
    + (IF code = EdOldPay.code THEN -PayDir * EdOldPay.amt ELSE 0)
    + (IF code = EdCmd.recv_code THEN RecvDir * EdNewRecv ELSE 0)
    + (IF code = EdCmd.pay_code THEN PayDir * EdNewPay ELSE 0)

\* C11: when apply_edit_delta completes an edit that changed the currency of
\* a leg, every balance is what it would be had the old legs never been
\* applied and only the new legs been applied, whatever the precisions of the
\* old and new accounts.
C11_CurrencyChangeReplacesLegs ==
    (ed.recalc = "true" /\ EdFresh /\ (~RecvUnchanged \/ ~PayUnchanged)) =>
        \A code \in Codes : Bal(code) = EdPreBal(code) + EdReplaceChange(code)

\* C12: when the amounts of the old request cannot be read from the card, the
\* recalculation of an accepted edit returns false and issues no ledger call:
\* no account and no Transaction changes, and no call is reported.
C12_UnreadableOldNoLedgerCall ==
    (ed.msg # 0 /\ ~old_parsable(ed.old) /\ ed.recalc \notin {"not_positive", "no_account", "too_small"}) =>
        /\ ed.recalc = "false"
        /\ ed.statuses = <<>>
        /\ accounts = ed.pre
        /\ Len(txns) = ed.pre_txns

\* An accepted edit of an unreadable card whose new amounts are positive.
C12_Witness ==
    /\ ed.msg # 0
    /\ ~old_parsable(ed.old)
    /\ ed.recalc = "false"
    /\ EdNewRecv > 0 /\ EdNewPay > 0

\* -------------------------------------------------------- undo properties

KeyRows(key) == {i \in 1..Len(txns) : txns[i].key = key}

\* What the command of message m put on the account, and what its undo takes
\* back.
ChangeDelta(m) ==
    LET q == quantize_amount(Abs(changes[m]), accounts[<<ChatId, to_upper(ChangeCode)>>].precision)
    IN  IF changes[m] > 0 THEN q ELSE -q

RECURSIVE SumOver(_, _)
SumOver(S, f) ==
    IF S = {} THEN 0
    ELSE LET x == CHOOSE y \in S : TRUE IN f[x] + SumOver(S \ {x}, f)

Applied == {m \in ChangeMsgIds : KeyRows(change_key(ChatId, m)) # {}}
Undone == {m \in ChangeMsgIds : un[AnswerTo(m)].ok > 0}

\* C13: whatever the number of undo attempts on a bot message, their order,
\* their overlap and the evictions of its key from the registry, at most one
\* Transaction carries its undo key, and once attempts have completed the
\* reversing delta has been applied exactly once: the balance is the sum of
\* the applied commands minus the sum of the undone ones.
C13_UndoAtMostOnce ==
    /\ \A b \in UndoMsgIds : Cardinality(KeyRows(undo_key(ChatId, b))) <= 1
    /\ accounts[<<ChatId, to_upper(ChangeCode)>>].balance =
           SumOver(Applied, [m \in ChangeMsgIds |-> ChangeDelta(m)])
           - SumOver(Undone, [m \in ChangeMsgIds |-> ChangeDelta(m)])

\* Two attempts on one key have completed, the second after the key was
\* evicted from the registry.
C13_Witness ==
    \E b \in UndoMsgIds :
        /\ un[b].ok >= 2
        /\ un[b].hits >= 1
        /\ Cardinality(KeyRows(undo_key(ChatId, b))) = 1

\* C14: every ledger mutation of the chat's client is executed while the
\* chat's lock is held.
C14_MutationsUnderChatLock == [][txns' # txns => chatLock # 0]_vars

\* ------------------------------------------------------ account properties

\* C15: an apply on a (client, currency) that has no account, or only a
\* soft-deleted one, under a key not recorded before (or no key), raises
\* KeyError and changes neither a balance nor the transactions.
C15_MissingAccountStep ==
    \A c \in Clients, code \in Codes :
        (/\ ret'.op = "apply" /\ ret'.client = c /\ ret'.code = code
         /\ row_state(accounts[<<c, code>>]) \in {"absent", "inactive"}
         /\ Recorded(c, ret'.key) = {} \/ ret'.key = NoKey)
            => /\ ret'.err = "KeyError"
               /\ accounts' = accounts
               /\ txns' = txns

C15_AccountNotFound == [][C15_MissingAccountStep]_vars

\* A keyed apply was refused on a soft-deleted account that holds a balance.
C15_Witness ==
    /\ ret.op = "apply" /\ ret.err = "KeyError" /\ ret.key # NoKey
    /\ Recorded(ret.client, ret.key) = {}
    /\ row_state(accounts[<<ret.client, ret.code>>]) = "inactive"
    /\ accounts[<<ret.client, ret.code>>].balance # 0

\* C16: remove_currency returns true exactly when an active account existed
\* for (client, uppercased code), whatever its balance, and then changes only
\* the active flag and the deactivation mark; otherwise it returns false and
\* changes nothing, so a removal right after a removal returns false.
C16_RemoveStep ==
    \A c \in Clients, code \in Codes :
        (ret'.op = "remove_currency" /\ ret'.client = c /\ ret'.code = code) =>
            LET k == <<c, code>>
                was_active == row_state(accounts[k]) = "active"
            IN  /\ ret'.code = to_upper(ret'.raw)
                /\ ret'.result = (IF was_active THEN 1 ELSE 0)
                /\ txns' = txns
                /\ accounts' = IF was_active
                               THEN [accounts EXCEPT ![k].active = FALSE,
                                                     ![k].deactivated = TRUE]
                               ELSE accounts
                /\ (ret.op = "remove_currency" /\ ret.client = c /\ ret.code = code)
                       => ret'.result = 0

C16_RemoveCurrency == [][C16_RemoveStep]_vars

\* An account holding a non-zero balance was removed.
C16_Witness ==
    /\ ret.op = "remove_currency" /\ ret.result = 1
    /\ accounts[<<ret.client, ret.code>>].balance # 0
    /\ accounts[<<ret.client, ret.code>>].deactivated
    /\ ~accounts[<<ret.client, ret.code>>].active

\* C17: add_currency on a soft-deleted account returns the id of the same row,
\* sets its precision to the supplied one, makes it active and clears the
\* deactivation mark; its balance and every transaction are kept.
C17_ReactivateStep ==
    \A c \in Clients, code \in Codes :
        (/\ ret'.op = "add_currency" /\ ret'.client = c /\ ret'.code = code
         /\ row_state(accounts[<<c, code>>]) = "inactive")
            => /\ ret'.result = accounts[<<c, code>>].id
               /\ txns' = txns
               /\ accounts' = [accounts EXCEPT ![<<c, code>>].active = TRUE,
                                               ![<<c, code>>].deactivated = FALSE,
                                               ![<<c, code>>].precision = ret'.precision]

C17_Reactivation == [][C17_ReactivateStep]_vars

\* A soft-deleted account with transactions was reactivated with another
\* precision than it had.
C17_Witness ==
    /\ ret.op = "add_currency" /\ ret.was = "inactive"
    /\ RowsOf(ret.result) # {}
    /\ accounts[<<ret.client, ret.code>>].balance # 0
    /\ \E i \in RowsOf(ret.result) : txns[i].amount % Quantum(ret.precision) # 0

\* C18: at most one active account exists per (client, currency code) when
\* codes are compared in upper case, and calls whose codes differ only in
\* letter case act on one account: every row is stored under the upper-case
\* code.
ActiveRows(c, code) ==
    {k \in DOMAIN accounts : k[1] = c /\ to_upper(k[2]) = code /\ accounts[k].active}

C18_OneActiveAccount ==
    /\ \A c \in Clients, code \in Codes : Cardinality(ActiveRows(c, code)) <= 1
    /\ \A k \in DOMAIN accounts : accounts[k].id # 0 => k[2] \in Codes
    /\ ret.op \in {"add_currency", "remove_currency"} => ret.code \in Codes

\* An account opened under one spelling was removed under another.
C18_Witness ==
    /\ ret.op = "remove_currency" /\ ret.result = 1
    /\ ret.raw # ret.code
    /\ \E c \in Clients : accounts[<<c, ret.code>>].id # 0
    /\ ret.raw \notin Codes

\* ------------------------------------------------------- client properties

\* C19: every call of ensure_client for a chat returns the id of the chat's one
\* client, also when two calls for an unknown chat run at once, and no chat
\* ever has two clients.
C19_EnsureClientStable ==
    /\ \A i, j \in DOMAIN clients : clients[i].chat_id = clients[j].chat_id => i = j
    /\ \A w \in Workers :
           ens[w].pc = "done" =>
               /\ ens[w].err = "none"
               /\ ens[w].result = client_of(clients, ens[w].chat_id)

\* C20: ensure_client never replaces a stored name by an empty name, nor a
\* stored city by an empty city, and changes either only to the value
\* supplied.
C20_UpdateStep ==
    \A i \in DOMAIN clients :
        /\ clients'[i].name # clients[i].name => clients'[i].name \notin {"", Null}
        /\ clients'[i].city # clients[i].city => clients'[i].city \notin {"", Null}

C20_NoEmptyOverwrite == [][C20_UpdateStep]_vars

\* C21: a call of ensure_client that completes for the chat of a soft-deleted
\* client returns that client's id and leaves the client active.
C21_EnsureStep ==
    \A w \in Workers :
        (ens[w].pc = "selected" /\ ens'[w].pc = "done" /\ ens'[w].err = "none") =>
            /\ ens'[w].result = client_of(clients', ens[w].chat_id)
            /\ clients'[ens'[w].result].active

C21_EnsureReactivates == [][C21_EnsureStep]_vars

\* ------------------------------------------------- transaction properties

\* C22: the transactions are append-only: whatever the Repo call (apply, also
\* one that fails or repeats a key, add_currency, remove_currency), every
\* recorded transaction stays in its place with its account, amount,
\* balance_after and key; a call can only add a transaction after them.
C22_AppendStep ==
    /\ Len(txns') >= Len(txns)
    /\ \A i \in 1..Len(txns) : txns'[i] = txns[i]

C22_AppendOnly == [][C22_AppendStep]_vars

\* An account that holds transactions was removed, and they are all there.
C22_Witness ==
    /\ ret.op = "remove_currency" /\ ret.result = 1
    /\ Len(txns) >= 2
    /\ \A i \in 1..Len(txns) : txns[i].acct = accounts[<<ret.client, ret.code>>].id

\* ------------------------------------------------- edit retry properties

\* C23: once apply_edit_delta has completed for an edit (same chat, card,
\* command message and command), every further run for that edit changes no
\* balance and records no transaction: each correction is applied at most
\* once.
C23_RetryStep ==
    (ed.msg # 0 /\ ed.recalc = "true") => (accounts' = accounts /\ txns' = txns)

C23_EditRetrySafe == [][C23_RetryStep]_vars

\* A repeated run whose card still showed the old request: every correction
\* was found recorded.
C23_Witness ==
    /\ ed.msg # 0 /\ ed.recalc = "true"
    /\ Len(ed.statuses) >= 2
    /\ \A i \in DOMAIN ed.statuses : ed.statuses[i] = "hit"
    /\ accounts = ed.pre

\* -------------------------------------------------- chat lock properties

\* C24: no handler holds the chat lock while it waits for an outbound call to
\* the chat platform (the answer to the command): the lock is released before
\* the send.
C24_NoSendUnderLock ==
    \A w \in Workers : job[w].stage \in {"answer", "answer_kb"} => chatLock # w

\* ------------------------------------------------------ history properties

HistoryWindow == {k \in RowKeys(hq.times) : in_window(k, hq.since, hq.until)}

\* C25: the pages of a history query, each asked with the cursor at the last
\* row of the page before, hold rows of the window only, in strictly
\* descending (event time, id) order, hence none twice; and when the paging
\* has ended they hold every row of the window.
C25_PagingComplete ==
    /\ \A i, j \in DOMAIN hq.got : i < j => order_before(hq.got[i], hq.got[j])
    /\ \A i \in DOMAIN hq.got : hq.got[i] \in HistoryWindow
    /\ hq.done => {hq.got[i] : i \in DOMAIN hq.got} = HistoryWindow

\* A paging of several pages that ended, with two rows of one event time on
\* both sides of a page boundary and both ends of the window given.
C25_Witness ==
    /\ hq.done
    /\ hq.pages >= 3
    /\ hq.since # NoTime /\ hq.until # NoTime
    /\ \E i \in DOMAIN hq.got :
           /\ i % hq.limit = 0
           /\ i + 1 \in DOMAIN hq.got
           /\ hq.got[i][1] = hq.got[i + 1][1]

\* ----------------------------------------------------- quantize properties

\* C26: quantize_amount returns the multiple of 10^-precision closest to the
\* value, an exact tie going to the multiple of larger magnitude; so the
\* result of the negated value is the negated result, and a quantized value is
\* returned unchanged.
C26_Quantize ==
    qz.done =>
        LET q == Quantum(qz.precision)
            r == qz.result
            v == qz.value
        IN  /\ r % q = 0
            /\ 2 * Abs(r - v) <= q
            /\ 2 * Abs(r - v) = q => Abs(r) > Abs(v)
            /\ quantize_amount(-v, qz.precision) = -r
            /\ quantize_amount(r, qz.precision) = r

\* A negative value exactly between two multiples was quantized.
C26_Witness ==
    /\ qz.done
    /\ qz.value < 0
    /\ 2 * Abs(qz.result - qz.value) = Quantum(qz.precision)

\* ------------------------------------------------- balance sum properties

\* C27: every account's balance is zero plus the sum of the amounts of the
\* transactions recorded against it, and every transaction's balance_after is
\* the account's balance just before it plus the transaction's amount.
C27_BalanceIsSum ==
    /\ \A k \in DOMAIN accounts :
          accounts[k].id # 0 =>
              accounts[k].balance = InitialBalance + SumRows(accounts[k].id, Len(txns))
    /\ \A i \in DOMAIN txns :
          txns[i].balance_after = BalanceBefore(i) + txns[i].amount

\* --------------------------------------------- deposit/withdraw properties

\* C28: a withdraw is an apply of the negated amount: when a deposit of x has
\* just been recorded and a withdraw of x follows under another key, with no
\* call in between (so the account's precision is the same throughout; the
\* pair is known by its two recorded amounts summing to zero), the balance is
\* back at its value before the deposit.
C28_PairStep ==
    LET n == Len(txns)
    IN  (/\ n >= 1
         /\ ret.op = "apply" /\ ret.err = "none" /\ ret.result = n
         /\ txns[n].amount > 0
         /\ ret'.op = "apply" /\ ret'.err = "none" /\ ret'.result = n + 1
         /\ Len(txns') = n + 1
         /\ txns'[n + 1].acct = txns[n].acct
         /\ txns'[n + 1].key # txns[n].key
         /\ txns'[n + 1].amount = -txns[n].amount)
        => /\ txns'[n + 1].balance_after = BalanceBefore(n)
           /\ \A k \in DOMAIN accounts :
                 accounts[k].id = txns[n].acct => accounts'[k].balance = BalanceBefore(n)

C29_RejectedNoLedgerCall ==
    ex.msg # 0 =>
        LET cmd      == cmds[ex.msg]
            acc_recv == ex.pre[<<ChatId, cmd.recv_code>>]
            acc_pay  == ex.pre[<<ChatId, cmd.pay_code>>]
        IN  (\/ cmd.recv_raw <= 0 \/ cmd.pay_raw <= 0
             \/ ~acc_recv.active \/ ~acc_pay.active
             \/ quantize_amount(cmd.recv_raw, acc_recv.precision) = 0
             \/ quantize_amount(cmd.pay_raw, acc_pay.precision) = 0)
            => /\ ex.legA = "none" /\ ex.legB = "none" /\ ex.comp = "none"
               /\ accounts = ex.pre
               /\ Len(txns) = ex.pre_txns

\* A command with positive amounts on two held accounts, one of which rounds
\* to zero at its account's precision, was handled.
C29_Witness ==
    /\ ex.msg # 0
    /\ cmds[ex.msg].recv_raw > 0 /\ cmds[ex.msg].pay_raw > 0
    /\ ex.pre[<<ChatId, cmds[ex.msg].recv_code>>].active
    /\ ex.pre[<<ChatId, cmds[ex.msg].pay_code>>].active
    /\ quantize_amount(cmds[ex.msg].recv_raw,
                       ex.pre[<<ChatId, cmds[ex.msg].recv_code>>].precision) = 0
    /\ ex.outcome = "too_small"

\* ------------------------------------------------- zero delta properties

\* The transactions the last run recorded under `keys`.
EdRecorded(keys) == {i \in (ed.pre_txns + 1)..Len(txns) : txns[i].key \in keys}
\* The account of `code` is as it was before the last run.
EdUntouched(code) ==
    /\ accounts[<<ChatId, code>>] = ed.pre[<<ChatId, code>>]
    /\ \A i \in (ed.pre_txns + 1)..Len(txns) : txns[i].code # code
EdRecvSame == EdNewRecv = EdOldRecv.amt
EdPaySame == EdNewPay = EdOldPay.amt

\* C30 as stated: in an edit with unchanged currencies, a leg whose new amount
\* is its old amount causes no ledger call, and the balance and transactions
\* of that leg's account are untouched while the other leg's delta is applied.
C30_ZeroDeltaLegUntouched ==
    (ed.recalc = "true" /\ RecvUnchanged /\ PayUnchanged) =>
        /\ EdRecvSame => (EdRecorded(EdRecvKeys) = {} /\ EdUntouched(EdCmd.recv_code))
        /\ EdPaySame => (EdRecorded(EdPayKeys) = {} /\ EdUntouched(EdCmd.pay_code))

\* C30, amended: in an edit with unchanged currencies, a leg whose new amount
\* is its old amount causes no ledger call (one call is made per leg whose
\* amount changed, none under the unchanged leg's keys); when the two legs are
\* in different currencies, the balance and transactions of that leg's account
\* are untouched while the other leg's delta is applied.
C30_ZeroDeltaNoCall ==
    (ed.recalc = "true" /\ RecvUnchanged /\ PayUnchanged) =>
        /\ Len(ed.statuses) = (IF EdRecvSame THEN 0 ELSE 1) + (IF EdPaySame THEN 0 ELSE 1)
        /\ EdRecvSame =>
              /\ EdRecorded(EdRecvKeys) = {}
              /\ EdCmd.recv_code # EdCmd.pay_code => EdUntouched(EdCmd.recv_code)
        /\ EdPaySame =>
              /\ EdRecorded(EdPayKeys) = {}
              /\ EdCmd.recv_code # EdCmd.pay_code => EdUntouched(EdCmd.pay_code)

\* An edit between two currencies kept the amount received and changed the
\* amount paid: the paying account moved, under one new transaction.
C30_Witness ==
    /\ ed.recalc = "true" /\ RecvUnchanged /\ PayUnchanged
    /\ EdCmd.recv_code # EdCmd.pay_code
    /\ EdRecvSame /\ ~EdPaySame
    /\ Len(txns) = ed.pre_txns + 1
    /\ Bal(EdCmd.pay_code) # EdPreBal(EdCmd.pay_code)

\* ----------------------------------------------------- registry properties

\* The number of the last call in `log` that named `key`; 0 when none did.
LastIn(log, key) ==
    LET at == {i \in DOMAIN log : log[i] = key}
    IN  IF at = {} THEN 0 ELSE CHOOSE i \in at : \A j \in at : j <= i
\* The keys of `log` other than `key` named after the last call that named it.
NamedAfter(log, key) == {log[i] : i \in (LastIn(log, key) + 1)..Len(log)} \ {key}

\* C31: the registry holds at most maxsize keys, each once, least recently
\* marked first, so that the key evicted when the bound is exceeded is the
\* least recently marked one; a marked key is held exactly as long as fewer
\* than maxsize other keys have been marked after its last mark_done, and
\* is_done answers whether the key is held.
C31_RegistryLRU ==
    LET r == undo_registry
    IN  /\ Len(r.seen) <= r.max
        /\ \A i, j \in DOMAIN r.seen :
              i < j => LastIn(r.log, r.seen[i]) < LastIn(r.log, r.seen[j])
        /\ \A key \in CacheKeys :
              is_done(r.seen, key)
                  <=> /\ LastIn(r.log, key) > 0
                      /\ Cardinality(NamedAfter(r.log, key)) < r.max
        /\ r.asked # <<>> => (r.done <=> is_done(r.seen, r.asked))

\* A key was marked, another key after it, then the first again, then a third
\* key: the registry of two keys dropped the second key and kept the first.
C31_Witness ==
    LET r == undo_registry
    IN  /\ r.max = 2 /\ Len(r.log) = 4
        /\ r.log[1] = r.log[3] /\ r.log[2] # r.log[1]
        /\ r.log[4] \notin {r.log[1], r.log[2]}
        /\ r.asked = r.log[2] /\ ~r.done
        /\ is_done(r.seen, r.log[1])

\* -------------------------------------------------------- dedup properties

\* The handler calls made for keyed updates, as pairs of an earlier and a
\* later call of one key.
DedupRepeats ==
    {p \in (DOMAIN dedup.calls) \X (DOMAIN dedup.calls) :
        /\ p[1] < p[2]
        /\ dedup.calls[p[1]].key = dedup.calls[p[2]].key
        /\ dedup.calls[p[1]].key # NoneKey}
\* Every delivery of a key that was not passed on follows a call for that key.
DedupDropsRepeatsOnly ==
    \A i \in DOMAIN dedup.log :
        (\A c \in DOMAIN dedup.calls : dedup.calls[c].at # i) =>
            \E c \in DOMAIN dedup.calls :
                dedup.calls[c].at < i /\ dedup.calls[c].key = dedup.log[i]

ExRecorded(leg) == Recorded(ChatId, idem_key(ChatId, ex.msg, leg)) # {}

\* C33: after any sequence of attempts to settle one command message the
\* exchange is all-or-nothing: an attempt that reports success leaves both
\* legs in net effect, and no attempt ends with leg A recorded and reverted
\* while leg B is applied.
C33_AllOrNothing ==
    ex.msg # 0 =>
        /\ ex.outcome = "ok" =>
              (ExRecorded("recv") /\ ~ExRecorded("recv:undo") /\ ExRecorded("pay"))
        /\ ~(ExRecorded("recv") /\ ExRecorded("recv:undo") /\ ExRecorded("pay"))

\* ------------------------------------------------- card rewrite properties

\* C34: the card shows the net ledger effect of its exchange after every
\* edit: when the recalculation of an edit raised part-way, or returned false
\* because the old amounts could not be read, the card is not rewritten to the
\* new amounts.
C34_CardFollowsLedger ==
    (ed.msg # 0 /\ ed.recalc \in {"raised", "false"}) => cards[ed.target] = ed.old

\* ------------------------------------------------------ cancel properties

\* The transactions recorded under the cancel key of a leg of card `m`.
CancelRecorded(m, leg) == Recorded(ChatId, cancel_key(ChatId, m, leg))

\* C35: whatever the number of cancel presses on a card, failed ones
\* included, each leg is reversed at most once; a press that ends without an
\* exception leaves each leg reversed exactly once, and every balance is what
\* it was before the exchange.
C35_CancelOnce ==
    \A m \in MsgIds :
        /\ Cardinality(CancelRecorded(m, "recv")) <= 1
        /\ Cardinality(CancelRecorded(m, "pay")) <= 1
        /\ (ca.msg = m /\ ca.outcome = "ok") =>
              /\ Cardinality(CancelRecorded(m, "recv")) = 1
              /\ Cardinality(CancelRecorded(m, "pay")) = 1
              /\ \A code \in Codes : Bal(code) = InitialBalance

\* A press whose first reversal succeeded and whose second failed was
\* followed by a press that found the first recorded and applied the second.
C35_Witness ==
    /\ ca.presses = 2
    /\ ca.outcome = "ok"
    /\ ca.statuses = <<"hit", "applied">>
    /\ Len(txns) = 4
    /\ \E code \in Codes : ca.pre[<<ChatId, code>>].balance # InitialBalance

\* Both legs of card `m` were reversed among the first n transactions.
CancelledBy(m, n) ==
    /\ \E i \in CancelRecorded(m, "recv") : i <= n
    /\ \E i \in CancelRecorded(m, "pay") : i <= n

\* C36: an edit command replying to a card that has been cancelled (both legs
\* reversed before the edit began) changes no balance and records no
\* transaction.
C36_NoEditAfterCancel ==
    (ed.msg # 0 /\ CancelledBy(ed.target, ed.pre_txns)) =>
        /\ accounts = ed.pre
        /\ Len(txns) = ed.pre_txns

\* Worker w runs the body of _cb_undo in this step.
UndoRunStep(w) == job[w].op = "undo" /\ job[w].stage = "in" /\ job'[w] = NoJob

\* The reversal of bot message b is recorded in the rows `rows`.
UndoRecorded(rows, b) == IdemLookup(rows, ChatId, undo_key(ChatId, b)) # 0

C37_Step ==
    \A w \in Workers :
        UndoRunStep(w) =>
            LET b == job[w].msg
            IN  /\ (b \in seen' /\ b \notin seen) => UndoRecorded(txns', b)
                /\ un'[b].ok = un[b].ok =>
                       (seen' = seen /\ accounts' = accounts /\ txns' = txns)
                /\ (un'[b].ok # un[b].ok /\ b \notin seen) =>
                       (b \in seen' /\ UndoRecorded(txns', b))

\* C37: the undo key is marked done only in a run whose reversing Repo call
\* returned; a run that ends in failure (inactive account, storage error,
\* unparsable amount, unknown sign) leaves the registry, the balances and the
\* transactions as they were, and a run that does not fail marks the key
\* with the reversal recorded.
C37_MarkedAfterSuccess == [][C37_Step]_vars

\* A press that failed was followed by a press on the same message that
\* applied the reversal.
C37_Witness ==
    \E b \in UndoMsgIds :
        /\ un[b].tries = 2
        /\ un[b].ok = 1
        /\ un[b].hits = 0
        /\ b \in seen
        /\ UndoRecorded(txns, b)
        /\ \A w \in Workers : job[w] = NoJob

\* The locks handler w holds, and the locks it waits for.
Holds(w) == {<<"chat", c>> : c \in {c \in LockChats : lk.chat[c].holder = w}}
            \cup (IF lk.reg.holder = w THEN {<<"reg", 0>>} ELSE {})
InQueue(l, w) == \E i \in DOMAIN l.waiters : l.waiters[i] = w
WaitsFor(w) == {<<"chat", c>> : c \in {c \in LockChats : InQueue(lk.chat[c], w)}}
               \cup (IF InQueue(lk.reg, w) THEN {<<"reg", 0>>} ELSE {})

\* Every lock is held exactly inside its critical section: a handler outside
\* the body of `async with` holds and awaits no chat lock (so every exit path
\* has released it), and likewise for the registry's lock.
LocksReleased ==
    \A w \in Workers :
        LET p == lk.h[w].pos
        IN  /\ Holds(w) = (IF p \in {"idle", "wait"} THEN {} ELSE {<<"chat", lk.h[w].chat>>})
                          \cup (IF p \in {"is_done", "mark_done"} THEN {<<"reg", 0>>} ELSE {})
            /\ WaitsFor(w) = (IF p = "wait" THEN {<<"chat", lk.h[w].chat>>} ELSE {})
                             \cup (IF p \in {"is_done_wait", "mark_done_wait"}
                                   THEN {<<"reg", 0>>} ELSE {})

\* A handler waits for a chat's lock only behind handlers of the same chat.
ChatsIndependent ==
    \A w \in Workers :
        lk.h[w].pos = "wait" =>
            LET l == lk.chat[lk.h[w].chat]
            IN  /\ l.holder # 0 => lk.h[l.holder].chat = lk.h[w].chat
                /\ \A i \in DOMAIN l.waiters : lk.h[l.waiters[i]].chat = lk.h[w].chat

\* No cycle of waiting: whoever holds the registry's lock waits for nothing,
\* and whoever holds a chat's lock waits at most for the registry's lock.
NoCyclicWait ==
    \A w \in Workers :
        /\ <<"reg", 0>> \in Holds(w) => WaitsFor(w) = {}
        /\ Holds(w) # {} => WaitsFor(w) \subseteq {<<"reg", 0>>}

\* C38: the chat lock and the registry lock are held only inside their
\* critical sections whatever the exit path, handlers of different chats do
\* not wait for each other, nobody waits in a cycle, and under fair
\* scheduling a handler waiting for its chat's lock eventually enters the body.
C38_LocksLive ==
    /\ [](LocksReleased /\ ChatsIndependent /\ NoCyclicWait)
    /\ \A w \in Workers : (lk.h[w].pos = "wait") ~> (lk.h[w].pos = "in")

\* A handler that had to wait for its chat's lock is in the body while a
\* handler of another chat is in its own.
C38_Witness ==
    \E w, v \in Workers :
        /\ lk.h[w].pos = "in"
        /\ lk.h[w].waited
        /\ lk.h[v].pos \notin {"idle", "wait"}
        /\ lk.h[v].chat # lk.h[w].chat
====
